---- MODULE Spec2Model ----
(***************************************************************************)
(* Model of the VPC-endpoint gap checker: the CloudTrail event normalizer, *)
(* the gap analyzer, the HA resource selectors, the existence checker, the *)
(* CLI provisioning flow (vpc_endpoint_checker.py) and the Slack-driven    *)
(* Lambda workflow (lambda_test/lambda_function.py).                       *)
(*                                                                         *)
(* Each component has its own specification (SpecAnalyzer, ...) over the   *)
(* variables it uses; the variables of the other components keep their     *)
(* initial values.                                                         *)
(***************************************************************************)
EXTENDS Integers, Sequences, FiniteSets, TLC

(***************************************************************************)
(* Bounds of the model.                                                    *)
(***************************************************************************)
MaxEvents == 5
MaxThreshold == 5
MaxRaw == 2
MaxPages == 2
MaxSubnets == 4
MaxRtSubnets == 3
MaxAz == 3
MaxEndpoints == 1
MaxCliRuns == 1
MaxClientCalls == 4
MaxPolls == 62
MaxLogRows == 2

(***************************************************************************)
(* Program constants.                                                      *)
(***************************************************************************)
ENDPOINT_MISSING_THRESHOLD == 5

\* TARGET_SERVICES: eventSource -> service identifier
TARGET_SERVICES == ("s3.amazonaws.com" :> "S3") @@ ("ecr.amazonaws.com" :> "ECR")

Services == {TARGET_SERVICES[k] : k \in DOMAIN TARGET_SERVICES}

\* Python's None where a string is expected
NoneVal == "None"

\* a test for None alone: the empty string passes it
Truthy_present(x) == x # NoneVal

\* truth value of a string-or-None (None and "" are falsy)
Truthy(x) == x \notin {NoneVal, ""}

\* the column values of usedVpcEndpoint
Yes == "Yes"
No == "No"

VARIABLES
    events_df,          \* analyzer: the rows of the event DataFrame
    threshold,          \* analyzer: the threshold of the last analysis
    potential_missing,  \* analyzer: the dict returned by the last analysis
    an_pc,              \* analyzer: "input" while rows are added, "done" after an analysis
    pages,              \* normalizer: the pages of raw records the audit log holds
    nz_pc,              \* normalizer: "input" while the log is filled, "done" after a lookup
    nz_call,            \* normalizer: the arguments of the last lookup
    nz_out,             \* normalizer: the records the last lookup returned
    latest_csv,         \* normalizer: LATEST_CSV, [exists, rows]
    cumulative_csv,     \* normalizer: CUMULATIVE_CSV, [exists, rows]
    subnets,            \* inventory: the subnets describe_subnets lists for the VPC
    route_tables,       \* inventory: the route tables describe_route_tables lists
    ha_pc,              \* selector: "input" while the inventory is built, "done" after a selection
    ha_call,            \* selector: the arguments of the last selection
    ha_out,             \* selector: the list the last selection returned
    instance,           \* inventory: what describe_instances reports for the reference instance
    endpoints,          \* inventory: the VPC endpoints, in order of creation
    cli_last,           \* CLI: what the last create_vpc_endpoint_interactive call did
    inflight,           \* Lambda: the asynchronous invocations not yet acknowledged
    slack,              \* Lambda: the message the channel currently shows
    last,               \* Lambda: what the last run of lambda_handler did
    main_last,          \* CLI: what the last run of main did
    ec2_clients,        \* client cache: the regions _ec2_clients has a client for
    ec2_validated,      \* client cache: the regions whose describe_regions call succeeded
    ec2_last,           \* client cache: what the last get_ec2_client call did
    ssm_pc,             \* SSM: where _run_ssm_command_and_wait is (idle, polling, done)
    retry_count,        \* SSM: retry_count of the polling loop
    ssm_polls,          \* SSM: the get_command_invocation calls made so far
    final_result,       \* SSM: the last poll response, NoneVal before the first
    ssm_out             \* SSM: what the function returned, [success, result]

an_vars == <<events_df, threshold, potential_missing, an_pc>>

nz_vars == <<pages, nz_pc, nz_call, nz_out, latest_csv, cumulative_csv>>

ha_vars == <<subnets, route_tables, ha_pc, ha_call, ha_out>>

env_vars == <<instance, endpoints>>

cli_vars == <<cli_last>>

lam_vars == <<inflight, slack, last>>

main_vars == <<main_last>>

ec2_vars == <<ec2_clients, ec2_validated, ec2_last>>

ssm_vars == <<ssm_pc, retry_count, ssm_polls, final_result, ssm_out>>

vars == <<an_vars, nz_vars, ha_vars, env_vars, cli_vars, lam_vars, main_vars, ec2_vars, ssm_vars>>

\* what the actions of one component leave alone
an_others == <<nz_vars, ha_vars, env_vars, cli_vars, lam_vars, main_vars, ec2_vars, ssm_vars>>
nz_others == <<an_vars, ha_vars, env_vars, cli_vars, lam_vars, main_vars, ec2_vars, ssm_vars>>
ha_others == <<an_vars, nz_vars, env_vars, cli_vars, lam_vars, main_vars, ec2_vars, ssm_vars>>
cli_others == <<an_vars, nz_vars, ha_pc, ha_call, ha_out, lam_vars, main_vars, ec2_vars, ssm_vars>>
lam_others == <<an_vars, nz_vars, ha_pc, ha_call, ha_out, cli_vars, main_vars, ec2_vars, ssm_vars>>
env_others == <<an_vars, nz_vars, ha_pc, ha_call, ha_out, cli_vars, lam_vars, main_vars, ec2_vars, ssm_vars>>

(***************************************************************************)
(* Generic helpers.                                                        *)
(***************************************************************************)
\* the empty dict
EmptyDict == [k \in {} |-> 0]

(***************************************************************************)
(* Gap analyzer: analyze_endpoint_usage.                                   *)
(***************************************************************************)
\* the (service, region) pairs the analyzer sees in this model
GroupKeys == {<<"S3", "region-a">>, <<"S3", "region-b">>, <<"ECR", "region-a">>}

EventRows == {[service |-> k[1], region |-> k[2], usedVpcEndpoint |-> u] :
                k \in GroupKeys, u \in {Yes, No}}

\* events_df[events_df["usedVpcEndpoint"] == "No"]
MissingRows(df) == SelectSeq(df, LAMBDA r : r.usedVpcEndpoint = No)

\* missing_endpoints.groupby(["service", "region"]).size(): one entry per
\* (service, region) pair that occurs in the rows, with the number of rows
GroupBySize(rows) ==
    LET keys == {<<rows[i].service, rows[i].region>> : i \in DOMAIN rows}
    IN  [k \in keys |->
            Cardinality({i \in DOMAIN rows :
                            <<rows[i].service, rows[i].region>> = k})]

\* a comparison that drops the groups that are exactly at the threshold
AtLeast_strict(counts, t) ==
    LET kept == {k \in DOMAIN counts : counts[k] > t}
    IN  [k \in kept |-> counts[k]]

\* a comparison turned around: the groups at or below the threshold
AtLeast_flipped(counts, t) ==
    LET kept == {k \in DOMAIN counts : counts[k] <= t}
    IN  [k \in kept |-> counts[k]]

\* missing_counts[missing_counts >= threshold].to_dict()
AtLeast(counts, t) ==
    LET kept == {k \in DOMAIN counts : counts[k] >= t}
    IN  [k \in kept |-> counts[k]]

analyze_endpoint_usage(df, t) ==
    IF df = <<>> THEN EmptyDict
    ELSE LET missing_endpoints == MissingRows(df)
         IN  IF missing_endpoints = <<>> THEN EmptyDict
             ELSE AtLeast(GroupBySize(missing_endpoints), t)

AnIdle ==
    /\ events_df = <<>>
    /\ threshold = ENDPOINT_MISSING_THRESHOLD
    /\ potential_missing = EmptyDict
    /\ an_pc = "input"

\* one more normalized record reaches the DataFrame
AddEvent ==
    /\ an_pc = "input"
    /\ Len(events_df) < MaxEvents
    /\ \E r \in EventRows : events_df' = Append(events_df, r)
    /\ UNCHANGED <<threshold, potential_missing, an_pc>>
    /\ UNCHANGED an_others

\* a call analyze_endpoint_usage(events_df, t)
Analyze ==
    /\ \E t \in 0..MaxThreshold :
        /\ threshold' = t
        /\ potential_missing' = analyze_endpoint_usage(events_df, t)
    /\ an_pc' = "done"
    /\ UNCHANGED events_df
    /\ UNCHANGED an_others

AnNext == AddEvent \/ Analyze

(***************************************************************************)
(* Event normalizer: lookup_service_events_and_filter_by_instance (CLI)    *)
(* and lookup_instance_events (Lambda).                                    *)
(*                                                                         *)
(* Strings that are searched for a substring are tuples of characters.     *)
(* A raw record is                                                         *)
(*   [form, eventSource, principalId, awsRegion, vpcEndpointId, eventTime] *)
(* where form says whether event["CloudTrailEvent"] parses: "ok", "badjson"*)
(* (json.JSONDecodeError) or "nokey" (any other exception, e.g. KeyError). *)
(* eventTime is the position of the record in the log, so it is unique.    *)
(* eventName, sourceIPAddress and user are copied through by the code and  *)
(* read by nothing; they are left out.                                     *)
(***************************************************************************)
\* sub in s, for strings as tuples of characters
Contains(s, sub) ==
    \E k \in 0..(Len(s) - Len(sub)) : SubSeq(s, k + 1, k + Len(sub)) = sub

\* instance ids; the first is a prefix of the second
InstanceIds == {<<"i", "1">>, <<"i", "1", "2">>}

\* target_instance_id: None (modelled as the empty string, also falsy) or an id
NoTarget == <<>>

Regions == {"region-a", "region-b"}

\* the raw records the audit log can hold, without their eventTime
RawKinds ==
    { [form |-> "ok", eventSource |-> "s3.amazonaws.com",
       principalId |-> <<"R", ":", "i", "1">>, awsRegion |-> "region-a",
       vpcEndpointId |-> NoneVal],
      [form |-> "ok", eventSource |-> "s3.amazonaws.com",
       principalId |-> <<"R", ":", "i", "1", "2">>, awsRegion |-> "region-a",
       vpcEndpointId |-> "vpce-1"],
      [form |-> "ok", eventSource |-> "ecr.amazonaws.com",
       principalId |-> <<"i", "1">>, awsRegion |-> "region-a",
       vpcEndpointId |-> ""],
      [form |-> "ok", eventSource |-> "ecr.amazonaws.com",
       principalId |-> <<"R", ":", "i", "1">>, awsRegion |-> "region-b",
       vpcEndpointId |-> "vpce-1"],
      [form |-> "ok", eventSource |-> "ec2.amazonaws.com",
       principalId |-> <<"R", ":", "i", "1">>, awsRegion |-> "region-a",
       vpcEndpointId |-> NoneVal],
      [form |-> "ok", eventSource |-> "s3.amazonaws.com",
       principalId |-> <<>>, awsRegion |-> "region-a",
       vpcEndpointId |-> NoneVal],
      [form |-> "ok", eventSource |-> "s3.amazonaws.com",
       principalId |-> <<"R", ":", "i", "1">>, awsRegion |-> NoneVal,
       vpcEndpointId |-> NoneVal],
      [form |-> "badjson", eventSource |-> NoneVal,
       principalId |-> <<>>, awsRegion |-> NoneVal, vpcEndpointId |-> NoneVal],
      [form |-> "nokey", eventSource |-> NoneVal,
       principalId |-> <<>>, awsRegion |-> NoneVal, vpcEndpointId |-> NoneVal] }

WithTime(k, t) ==
    [form |-> k.form, eventSource |-> k.eventSource, principalId |-> k.principalId,
     awsRegion |-> k.awsRegion, vpcEndpointId |-> k.vpcEndpointId, eventTime |-> t]

\* all raw records of the pages, in order
RECURSIVE Flatten(_)
Flatten(ps) == IF ps = <<>> THEN <<>> ELSE Head(ps) \o Flatten(Tail(ps))

\* a loop body that does not look at the actor of the record
NormalizeOne_anyActor(ev, target_instance_id) ==
    IF ev.form # "ok" THEN <<>>
    ELSE IF ev.eventSource \notin DOMAIN TARGET_SERVICES THEN <<>>
    ELSE IF ~Truthy(ev.awsRegion) THEN <<>>
    ELSE << [eventTime |-> ev.eventTime,
             service |-> TARGET_SERVICES[ev.eventSource],
             vpcEndpointId |-> ev.vpcEndpointId,
             usedVpcEndpoint |-> IF Truthy(ev.vpcEndpointId) THEN Yes ELSE No,
             region |-> ev.awsRegion] >>

\* the body of the CLI loop for one raw record: the records it appends
NormalizeOne(ev, target_instance_id) ==
    IF ev.form # "ok" THEN <<>>
    ELSE IF ev.eventSource \notin DOMAIN TARGET_SERVICES THEN <<>>
    ELSE IF /\ target_instance_id # NoTarget
            /\ ~Contains(ev.principalId, <<":">> \o target_instance_id)
         THEN <<>>
    ELSE IF ~Truthy(ev.awsRegion) THEN <<>>
    ELSE << [eventTime |-> ev.eventTime,
             service |-> TARGET_SERVICES[ev.eventSource],
             vpcEndpointId |-> ev.vpcEndpointId,
             usedVpcEndpoint |-> IF Truthy(ev.vpcEndpointId) THEN Yes ELSE No,
             region |-> ev.awsRegion] >>

\* a loop without the handlers around its body: the first record that does
\* not parse ends it
RECURSIVE NormalizeAll_abort(_, _)
NormalizeAll_abort(evs, target_instance_id) ==
    IF evs = <<>> THEN <<>>
    ELSE IF Head(evs).form # "ok" THEN <<>>
    ELSE NormalizeOne(Head(evs), target_instance_id)
            \o NormalizeAll_abort(Tail(evs), target_instance_id)

\* the loop over the raw records of the pages read
RECURSIVE NormalizeAll(_, _)
NormalizeAll(evs, target_instance_id) ==
    IF evs = <<>> THEN <<>>
    ELSE NormalizeOne(Head(evs), target_instance_id)
            \o NormalizeAll(Tail(evs), target_instance_id)

NoFile == [exists |-> FALSE, rows |-> <<>>]

\* the line df.to_csv writes for a record: a missing value (None) becomes an
\* empty field, every other value is written as it is
CsvRow(rec) ==
    [eventTime |-> rec.eventTime, service |-> rec.service,
     vpcEndpointId |-> IF rec.vpcEndpointId = NoneVal THEN "" ELSE rec.vpcEndpointId,
     usedVpcEndpoint |-> rec.usedVpcEndpoint, region |-> rec.region]

ToCsv(records) == [i \in DOMAIN records |-> CsvRow(records[i])]

\* df.to_csv(LATEST_CSV): the file is overwritten
WriteCsv(rows) == [exists |-> TRUE, rows |-> ToCsv(rows)]

\* df.to_csv(CUMULATIVE_CSV, mode="a") when the file exists, else a new file
AppendCsv(file, rows) ==
    IF file.exists THEN [exists |-> TRUE, rows |-> file.rows \o ToCsv(rows)]
    ELSE WriteCsv(rows)

\* a lookup that saves what it has read when a page fails
lookup_service_events_and_filter_by_instance_eager(ps, target_instance_id, fail, latest, cumulative) ==
    LET read == IF fail # 0 THEN SubSeq(ps, 1, fail - 1) ELSE ps
        records == NormalizeAll(Flatten(read), target_instance_id)
    IN  IF records = <<>>
        THEN [ok |-> fail = 0, records |-> <<>>,
              latest |-> latest, cumulative |-> cumulative]
        ELSE IF target_instance_id = NoTarget
        THEN [ok |-> fail = 0, records |-> IF fail = 0 THEN records ELSE <<>>,
              latest |-> WriteCsv(records),
              cumulative |-> AppendCsv(cumulative, records)]
        ELSE [ok |-> fail = 0, records |-> IF fail = 0 THEN records ELSE <<>>,
              latest |-> latest, cumulative |-> cumulative]

\* lookup_service_events_and_filter_by_instance: fail is the number of the
\* page whose fetch raises (0: every page is read); an exception anywhere in
\* the loop leaves through the outer handlers, which return an empty frame.
\* The result is [ok, records, latest, cumulative].
lookup_service_events_and_filter_by_instance(ps, target_instance_id, fail, latest, cumulative) ==
    IF fail # 0
    THEN [ok |-> FALSE, records |-> <<>>, latest |-> latest, cumulative |-> cumulative]
    ELSE LET records == NormalizeAll(Flatten(ps), target_instance_id)
         IN  IF records = <<>>
             THEN [ok |-> TRUE, records |-> <<>>,
                   latest |-> latest, cumulative |-> cumulative]
             ELSE IF target_instance_id = NoTarget
             THEN [ok |-> TRUE, records |-> records,
                   latest |-> WriteCsv(records),
                   cumulative |-> AppendCsv(cumulative, records)]
             ELSE [ok |-> TRUE, records |-> records,
                   latest |-> latest, cumulative |-> cumulative]

\* the body of the Lambda loop for one raw record
LambdaNormalizeOne(ev, region, instance_id) ==
    IF ev.form # "ok" THEN <<>>
    ELSE IF ev.eventSource \notin DOMAIN TARGET_SERVICES THEN <<>>
    ELSE IF ~Contains(ev.principalId, <<":">> \o instance_id) THEN <<>>
    ELSE IF ~Truthy(ev.awsRegion) \/ ev.awsRegion # region THEN <<>>
    ELSE << [eventTime |-> ev.eventTime,
             service |-> TARGET_SERVICES[ev.eventSource],
             vpcEndpointId |-> ev.vpcEndpointId,
             usedVpcEndpoint |-> IF Truthy(ev.vpcEndpointId) THEN Yes ELSE No,
             region |-> ev.awsRegion] >>

RECURSIVE LambdaNormalizeAll(_, _, _)
LambdaNormalizeAll(evs, region, instance_id) ==
    IF evs = <<>> THEN <<>>
    ELSE LambdaNormalizeOne(Head(evs), region, instance_id)
            \o LambdaNormalizeAll(Tail(evs), region, instance_id)

\* sorted(records, key=EventTime, reverse=True)
RECURSIVE SortedByTimeDesc(_)
SortedByTimeDesc(recs) ==
    IF recs = <<>> THEN <<>>
    ELSE LET i == CHOOSE i \in DOMAIN recs :
                    \A j \in DOMAIN recs : recs[j].eventTime <= recs[i].eventTime
             rest == [j \in 1..(Len(recs) - 1) |->
                        IF j < i THEN recs[j] ELSE recs[j + 1]]
         IN  <<recs[i]>> \o SortedByTimeDesc(rest)

\* lookup_instance_events: the records listed in the text it returns, newest
\* first and at most max_results of them; an error text lists none
lookup_instance_events(ps, region, instance_id, fail, max_results) ==
    IF fail # 0 THEN [ok |-> FALSE, records |-> <<>>]
    ELSE LET sorted_records ==
                SortedByTimeDesc(LambdaNormalizeAll(Flatten(ps), region, instance_id))
         IN  [ok |-> TRUE,
              records |-> SubSeq(sorted_records, 1,
                                 IF Len(sorted_records) < max_results
                                 THEN Len(sorted_records) ELSE max_results)]

NoCall == [fn |-> "none", target |-> NoTarget, region |-> NoneVal, fail |-> 0, ok |-> TRUE]

NzIdle ==
    /\ pages = <<>>
    /\ nz_pc = "input"
    /\ nz_call = NoCall
    /\ nz_out = <<>>
    /\ latest_csv = NoFile
    /\ cumulative_csv = NoFile

\* the audit log gets one more page
NewPage ==
    /\ nz_pc = "input"
    /\ Len(pages) < MaxPages
    /\ pages' = Append(pages, <<>>)
    /\ UNCHANGED <<nz_pc, nz_call, nz_out, latest_csv, cumulative_csv>>
    /\ UNCHANGED nz_others

\* the last page of the audit log gets one more raw record
AddRaw ==
    /\ nz_pc = "input"
    /\ pages # <<>>
    /\ Len(Flatten(pages)) < MaxRaw
    /\ \E k \in RawKinds :
         pages' = [pages EXCEPT ![Len(pages)] =
                      Append(@, WithTime(k, Len(Flatten(pages)) + 1))]
    /\ UNCHANGED <<nz_pc, nz_call, nz_out, latest_csv, cumulative_csv>>
    /\ UNCHANGED nz_others

\* a call of the CLI normalizer, with or without an actor filter
Lookup ==
    /\ nz_pc = "input"
    /\ \E target \in {NoTarget} \cup InstanceIds, fail \in 0..Len(pages) :
         LET r == lookup_service_events_and_filter_by_instance(
                      pages, target, fail, latest_csv, cumulative_csv)
         IN  /\ nz_call' = [fn |-> "cli", target |-> target, region |-> NoneVal,
                            fail |-> fail, ok |-> r.ok]
             /\ nz_out' = r.records
             /\ latest_csv' = r.latest
             /\ cumulative_csv' = r.cumulative
    /\ nz_pc' = "done"
    /\ UNCHANGED pages
    /\ UNCHANGED nz_others

\* a call of the Lambda normalizer, always with an actor filter and a region
LambdaLookup ==
    /\ nz_pc = "input"
    /\ \E instance_id \in InstanceIds, region \in Regions,
          fail \in 0..Len(pages), max_results \in {1, 20} :
         LET r == lookup_instance_events(pages, region, instance_id, fail, max_results)
         IN  /\ nz_call' = [fn |-> "lambda", target |-> instance_id,
                            region |-> region, fail |-> fail, ok |-> r.ok]
             /\ nz_out' = r.records
    /\ nz_pc' = "done"
    /\ UNCHANGED <<pages, latest_csv, cumulative_csv>>
    /\ UNCHANGED nz_others

NzNext == NewPage \/ AddRaw \/ Lookup \/ LambdaLookup

\* the tool is started again: the process of the last run is gone and the
\* audit log holds the records of another window, while the two files stay
\* on disk.  Runs are counted by what they left in the cumulative file.
NextRun ==
    /\ nz_pc = "done"
    /\ Len(cumulative_csv.rows) < MaxLogRows
    /\ nz_pc' = "input"
    /\ pages' = <<>>
    /\ nz_call' = NoCall
    /\ nz_out' = <<>>
    /\ UNCHANGED <<latest_csv, cumulative_csv>>
    /\ UNCHANGED nz_others

\* the raw records of the runs whose files are followed: the tracked records
\* of instance i1 that carry a region, and the record that does not parse
SavedKinds ==
    {k \in RawKinds :
        \/ k.form = "badjson"
        \/ /\ k.form = "ok"
           /\ k.eventSource \in DOMAIN TARGET_SERVICES
           /\ k.principalId = <<"R", ":", "i", "1">>
           /\ Truthy(k.awsRegion)}

\* the last page of the audit log gets one more of these raw records
AddSavedRaw ==
    /\ nz_pc = "input"
    /\ pages # <<>>
    /\ Len(Flatten(pages)) < MaxRaw
    /\ \E k \in SavedKinds :
         pages' = [pages EXCEPT ![Len(pages)] =
                      Append(@, WithTime(k, Len(Flatten(pages)) + 1))]
    /\ UNCHANGED <<nz_pc, nz_call, nz_out, latest_csv, cumulative_csv>>
    /\ UNCHANGED nz_others

\* runs of the CLI tool one after another over the same two files
PsNext == NewPage \/ AddSavedRaw \/ Lookup \/ NextRun

(***************************************************************************)
(* HA resource selector: select_subnets_for_ha, select_route_tables_for_ha.*)
(*                                                                         *)
(* A subnet is [SubnetId, AvailabilityZone, State]; SubnetId is the        *)
(* position of the subnet in the listing, so it is unique.  A route table  *)
(* is [RouteTableId, Associations], an association [Main, SubnetId] with   *)
(* SubnetId = NoSubnet when the association names no subnet.               *)
(***************************************************************************)
AzNames == {"az-a", "az-b", "az-c"}

\* the place of an AZ name in the lexicographic order of the names
AzRank == ("az-a" :> 1) @@ ("az-b" :> 2) @@ ("az-c" :> 3)

NoSubnet == 0

RouteTableIds == {"rtb-0", "rtb-1", "rtb-2"}

\* the elements of a list
Range(seq) == {seq[i] : i \in DOMAIN seq}

\* a grouping that does not look at the state of a subnet
SubnetsByAz_anyState(subs) ==
    LET usable == SelectSeq(subs, LAMBDA sub :
                        /\ Truthy(sub.AvailabilityZone)
                        /\ sub.SubnetId # NoSubnet)
        azs == {usable[i].AvailabilityZone : i \in DOMAIN usable}
        IdsIn(az) ==
            LET inAz == SelectSeq(usable, LAMBDA sub : sub.AvailabilityZone = az)
            IN  [i \in DOMAIN inAz |-> inAz[i].SubnetId]
    IN  [az \in azs |-> IdsIn(az)]

\* subnets_by_az: AZ -> the ids of its usable subnets, in listing order
SubnetsByAz(subs) ==
    LET usable == SelectSeq(subs, LAMBDA sub :
                        /\ Truthy(sub.AvailabilityZone)
                        /\ sub.SubnetId # NoSubnet
                        /\ sub.State = "available")
        azs == {usable[i].AvailabilityZone : i \in DOMAIN usable}
        IdsIn(az) ==
            LET inAz == SelectSeq(usable, LAMBDA sub : sub.AvailabilityZone = az)
            IN  [i \in DOMAIN inAz |-> inAz[i].SubnetId]
    IN  [az \in azs |-> IdsIn(az)]

\* the AZ names from the last to the first
RECURSIVE SortedAzs_descending(_)
SortedAzs_descending(azs) ==
    IF azs = {} THEN <<>>
    ELSE LET first == CHOOSE a \in azs : \A b \in azs : AzRank[a] >= AzRank[b]
         IN  <<first>> \o SortedAzs_descending(azs \ {first})

\* sorted(subnets_by_az.keys())
RECURSIVE SortedAzs(_)
SortedAzs(azs) ==
    IF azs = {} THEN <<>>
    ELSE LET first == CHOOSE a \in azs : \A b \in azs : AzRank[a] <= AzRank[b]
         IN  <<first>> \o SortedAzs(azs \ {first})

\* a loop that takes every usable subnet of an AZ, not only the first
RECURSIVE PickSubnets_all(_, _, _, _)
PickSubnets_all(azs, by_az, selected, max_az) ==
    IF azs = <<>> THEN selected
    ELSE IF Len(selected) >= max_az THEN selected
    ELSE PickSubnets_all(Tail(azs), by_az, selected \o by_az[Head(azs)], max_az)

\* the loop of select_subnets_for_ha over the sorted AZs
RECURSIVE PickSubnets(_, _, _, _)
PickSubnets(azs, by_az, selected, max_az) ==
    IF azs = <<>> THEN selected
    ELSE IF Len(selected) >= max_az THEN selected
    ELSE IF by_az[Head(azs)] # <<>>
         THEN PickSubnets(Tail(azs), by_az,
                          Append(selected, by_az[Head(azs)][1]), max_az)
         ELSE PickSubnets(Tail(azs), by_az, selected, max_az)

\* a selector that answers with the list it selected earlier, whatever the
\* inventory holds now
select_subnets_for_ha_remembered(query_ok, subs, max_az) == <<1, 2>>

\* select_subnets_for_ha: query_ok is FALSE when describe_subnets raises
select_subnets_for_ha(query_ok, subs, max_az) ==
    IF ~query_ok THEN <<>>
    ELSE IF subs = <<>> THEN <<>>
    ELSE LET subnets_by_az == SubnetsByAz(subs)
         IN  IF DOMAIN subnets_by_az = {} THEN <<>>
             ELSE PickSubnets(SortedAzs(DOMAIN subnets_by_az), subnets_by_az,
                              <<>>, max_az)

\* subnet_to_rt_map: the loops over the route tables and their associations;
\* a later association of a subnet replaces an earlier one
RECURSIVE AssocMap(_, _, _)
AssocMap(rt_id, assocs, map) ==
    IF assocs = <<>> THEN map
    ELSE AssocMap(rt_id, Tail(assocs),
                  IF Head(assocs).SubnetId # NoSubnet
                  THEN [s \in DOMAIN map \cup {Head(assocs).SubnetId} |->
                            IF s = Head(assocs).SubnetId THEN rt_id ELSE map[s]]
                  ELSE map)

RECURSIVE SubnetToRtMap(_, _)
SubnetToRtMap(rts, map) ==
    IF rts = <<>> THEN map
    ELSE SubnetToRtMap(Tail(rts),
                       AssocMap(Head(rts).RouteTableId, Head(rts).Associations, map))

\* a search that takes the first route table of the listing for the main one
\* without looking at the Main flags
MainOf_first(rts, main) == IF rts = <<>> THEN main ELSE rts[1].RouteTableId

\* main_route_table_id after the loops: the last route table that has an
\* association with Main set, NoneVal when there is none
RECURSIVE MainOf(_, _)
MainOf(rts, main) ==
    IF rts = <<>> THEN main
    ELSE MainOf(Tail(rts),
                IF \E i \in DOMAIN Head(rts).Associations :
                        Head(rts).Associations[i].Main
                THEN Head(rts).RouteTableId ELSE main)

\* selected_route_table_ids.add(x): the set is kept as a list without
\* repetitions, in the order of insertion
SetAdd_append(selected, x) == Append(selected, x)

SetAdd(selected, x) == IF x \in Range(selected) THEN selected ELSE Append(selected, x)

\* the first subnet of the AZ that has an explicit association, 0 if none
FirstAssociated(ids, map) ==
    IF \E i \in DOMAIN ids : ids[i] \in DOMAIN map
    THEN LET i == CHOOSE i \in DOMAIN ids :
                    /\ ids[i] \in DOMAIN map
                    /\ \A j \in 1..(i - 1) : ids[j] \notin DOMAIN map
         IN  ids[i]
    ELSE NoSubnet

\* the loop of select_route_tables_for_ha over the sorted AZs
RECURSIVE PickRouteTables(_, _, _, _, _, _, _)
PickRouteTables(azs, by_az, map, main, selected, added_main_rt, max_az) ==
    IF azs = <<>> THEN selected
    ELSE IF Len(selected) >= max_az THEN selected
    ELSE LET found == FirstAssociated(by_az[Head(azs)], map)
         IN  IF found # NoSubnet
             THEN PickRouteTables(Tail(azs), by_az, map, main,
                                  SetAdd(selected, map[found]), added_main_rt, max_az)
             ELSE IF Truthy(main) /\ ~added_main_rt
             THEN PickRouteTables(Tail(azs), by_az, map, main,
                                  SetAdd(selected, main), TRUE, max_az)
             ELSE PickRouteTables(Tail(azs), by_az, map, main,
                                  selected, added_main_rt, max_az)

\* select_route_tables_for_ha up to list(selected_route_table_ids), whose
\* order is not defined: the ids selected, in insertion order
select_route_tables_for_ha(subnets_ok, subs, rts_ok, rts, max_az) ==
    IF ~subnets_ok THEN <<>>
    ELSE LET subnets_by_az == SubnetsByAz(subs)
         IN  IF DOMAIN subnets_by_az = {} THEN <<>>
             ELSE IF ~rts_ok THEN <<>>
             ELSE LET subnet_to_rt_map == SubnetToRtMap(rts, <<>>)
                      flagged == MainOf(rts, NoneVal)
                      main_route_table_id ==
                          IF Truthy(flagged) THEN flagged
                          ELSE IF rts # <<>> THEN rts[1].RouteTableId
                          ELSE NoneVal
                  IN  IF ~Truthy(main_route_table_id) THEN <<>>
                      ELSE LET selected ==
                                  PickRouteTables(SortedAzs(DOMAIN subnets_by_az),
                                                  subnets_by_az, subnet_to_rt_map,
                                                  main_route_table_id, <<>>, FALSE,
                                                  max_az)
                           IN  IF selected = <<>> THEN <<main_route_table_id>>
                               ELSE selected

\* the orders in which list(a set) can give the elements
Reorderings(seq) ==
    LET n == Len(seq)
        perms == {f \in [1..n -> 1..n] : \A i, j \in 1..n : f[i] = f[j] => i = j}
    IN  {[i \in 1..n |-> seq[f[i]]] : f \in perms}

NoSelection == [fn |-> "none", max_az |-> 0, subnets_ok |-> TRUE, rts_ok |-> TRUE]

HaIdle ==
    /\ subnets = <<>>
    /\ route_tables = <<>>
    /\ ha_pc = "input"
    /\ ha_call = NoSelection
    /\ ha_out = <<>>

NewSubnet(az, state) ==
    [SubnetId |-> Len(subnets) + 1, AvailabilityZone |-> az, State |-> state]

\* the VPC gets one more subnet, in any AZ (or with none reported) and state
AddSubnet ==
    /\ ha_pc = "input"
    /\ Len(subnets) < MaxSubnets
    /\ \E az \in AzNames \cup {NoneVal}, state \in {"available", "pending"} :
         /\ (az = NoneVal => state = "available")
         /\ subnets' = Append(subnets, NewSubnet(az, state))
    /\ UNCHANGED <<route_tables, ha_pc, ha_call, ha_out>>
    /\ UNCHANGED ha_others

\* a call select_subnets_for_ha(ec2_client, vpc_id, max_az)
SelectSubnets ==
    /\ ha_pc = "input"
    /\ \E max_az \in 0..MaxAz, query_ok \in BOOLEAN :
         /\ ha_call' = [fn |-> "subnets", max_az |-> max_az,
                        subnets_ok |-> query_ok, rts_ok |-> TRUE]
         /\ ha_out' = select_subnets_for_ha(query_ok, subnets, max_az)
    /\ ha_pc' = "done"
    /\ UNCHANGED <<subnets, route_tables>>
    /\ UNCHANGED ha_others

SnNext == AddSubnet \/ SelectSubnets

\* the listings of route tables a VPC starts with: none at all, a main table
\* first or last, a main table that is also used for explicit associations,
\* and tables of which none is flagged as main
RouteTableListings ==
    LET rt(id, main) ==
            [RouteTableId |-> id,
             Associations |-> IF main THEN <<[Main |-> TRUE, SubnetId |-> NoSubnet]>>
                              ELSE <<>>]
    IN  { <<>>,
          <<rt("rtb-0", TRUE)>>,
          <<rt("rtb-0", TRUE), rt("rtb-1", FALSE), rt("rtb-2", FALSE)>>,
          <<rt("rtb-1", FALSE), rt("rtb-0", TRUE)>>,
          <<rt("rtb-1", TRUE), rt("rtb-2", FALSE)>>,
          <<rt("rtb-1", FALSE), rt("rtb-2", FALSE)>> }

\* the VPC's route tables come into being
CreateRouteTables ==
    /\ ha_pc = "input"
    /\ route_tables = <<>>
    /\ subnets = <<>>
    /\ \E listing \in RouteTableListings \ {<<>>} : route_tables' = listing
    /\ UNCHANGED <<subnets, ha_pc, ha_call, ha_out>>
    /\ UNCHANGED ha_others

\* the VPC gets one more subnet (route-table specification)
AddRtSubnet ==
    /\ ha_pc = "input"
    /\ Len(subnets) < MaxRtSubnets
    /\ \E az \in AzNames, state \in {"available", "pending"} :
         /\ (state = "pending" => az = "az-a")
         /\ subnets' = Append(subnets, NewSubnet(az, state))
    /\ UNCHANGED <<route_tables, ha_pc, ha_call, ha_out>>
    /\ UNCHANGED ha_others

\* the newest subnet is explicitly associated with a route table (a subnet
\* has at most one explicit association)
Associate ==
    /\ ha_pc = "input"
    /\ subnets # <<>>
    /\ Len(subnets) \notin DOMAIN SubnetToRtMap(route_tables, <<>>)
    /\ \E r \in DOMAIN route_tables :
         route_tables' = [route_tables EXCEPT ![r].Associations =
                              Append(@, [Main |-> FALSE, SubnetId |-> Len(subnets)])]
    /\ UNCHANGED <<subnets, ha_pc, ha_call, ha_out>>
    /\ UNCHANGED ha_others

\* a call select_route_tables_for_ha(ec2_client, vpc_id, max_az)
SelectRouteTables ==
    /\ ha_pc = "input"
    /\ \E max_az \in 0..MaxAz, subnets_ok \in BOOLEAN, rts_ok \in BOOLEAN :
         /\ (~subnets_ok => rts_ok)
         /\ ha_call' = [fn |-> "route_tables", max_az |-> max_az,
                        subnets_ok |-> subnets_ok, rts_ok |-> rts_ok]
         /\ ha_out' \in Reorderings(select_route_tables_for_ha(
                            subnets_ok, subnets, rts_ok, route_tables, max_az))
    /\ ha_pc' = "done"
    /\ UNCHANGED <<subnets, route_tables>>
    /\ UNCHANGED ha_others

RtNext == CreateRouteTables \/ AddRtSubnet \/ Associate \/ SelectRouteTables

(***************************************************************************)
(* The network inventory and the provisioning API, as the CLI flow and the *)
(* Lambda workflow see them.                                               *)
(*                                                                         *)
(* An endpoint is [VpcId, ServiceName, State]; its id is its position in   *)
(* endpoints.  A service name is the tuple of the parts of the f-string    *)
(* com.amazonaws.{region}.{suffix}.                                        *)
(***************************************************************************)
VpcIds == {"vpc-1"}

\* the states in which check_existing_endpoint does not count an endpoint
TerminalStates == {"deleted", "deleting", "failed"}

EndpointStates == {"pending", "available"} \cup TerminalStates

\* str.lower() on the service identifiers
Lower(service) == IF service = "S3" THEN "s3"
                  ELSE IF service = "ECR" THEN "ecr" ELSE service

\* CLI: com.amazonaws.{region}.s3 / com.amazonaws.{region}.ecr.dkr
ServiceNameCli(region, service) ==
    IF service = "S3" THEN <<"com.amazonaws", region, "s3">>
    ELSE <<"com.amazonaws", region, "ecr.dkr">>

\* the instance as describe_instances reports it: absent, complete,
\* without security groups, without VPC id (a terminated instance), or
\* without subnet id
InstanceStates ==
    { [found |-> FALSE, VpcId |-> NoneVal, SubnetId |-> NoneVal, SecurityGroups |-> <<>>],
      [found |-> TRUE, VpcId |-> "vpc-1", SubnetId |-> "subnet-i",
       SecurityGroups |-> <<"sg-1">>],
      [found |-> TRUE, VpcId |-> "vpc-1", SubnetId |-> "subnet-i",
       SecurityGroups |-> <<>>],
      [found |-> TRUE, VpcId |-> NoneVal, SubnetId |-> NoneVal,
       SecurityGroups |-> <<"sg-1">>],
      [found |-> TRUE, VpcId |-> "vpc-1", SubnetId |-> NoneVal,
       SecurityGroups |-> <<"sg-1">>] }

NoDetails == [ok |-> FALSE, vpc_id |-> NoneVal, subnet_id |-> NoneVal,
              security_group_ids |-> <<>>]

\* a lookup that does not ask for a security group
get_instance_network_details_lenient(client_ok, inst) ==
    IF ~client_ok THEN NoDetails
    ELSE IF ~inst.found THEN NoDetails
    ELSE IF ~Truthy(inst.VpcId) \/ ~Truthy(inst.SubnetId) THEN NoDetails
    ELSE [ok |-> TRUE, vpc_id |-> inst.VpcId, subnet_id |-> inst.SubnetId,
          security_group_ids |-> inst.SecurityGroups]

\* get_instance_network_details: client_ok is FALSE when get_ec2_client
\* gives no client; None is the record with ok = FALSE
get_instance_network_details(client_ok, inst) ==
    IF ~client_ok THEN NoDetails
    ELSE IF ~inst.found THEN NoDetails
    ELSE LET security_group_ids == SelectSeq(inst.SecurityGroups, LAMBDA g : Truthy(g))
         IN  IF ~Truthy(inst.VpcId) \/ ~Truthy(inst.SubnetId) \/ security_group_ids = <<>>
             THEN NoDetails
             ELSE [ok |-> TRUE, vpc_id |-> inst.VpcId, subnet_id |-> inst.SubnetId,
                   security_group_ids |-> security_group_ids]

\* a check that reports a failed query as "no endpoint"
check_existing_endpoint_permissive(query_ok, eps, vpc_id, service_name) ==
    IF ~query_ok THEN [known |-> TRUE, existing |-> <<>>]
    ELSE [known |-> TRUE,
          existing |-> SelectSeq(eps, LAMBDA ep :
                          /\ ep.VpcId = vpc_id
                          /\ ep.ServiceName = service_name
                          /\ ep.State \notin TerminalStates)]

\* a check that counts every endpoint of (vpc, service), whatever its state
check_existing_endpoint_anyState(query_ok, eps, vpc_id, service_name) ==
    IF ~query_ok THEN [known |-> FALSE, existing |-> <<>>]
    ELSE [known |-> TRUE,
          existing |-> SelectSeq(eps, LAMBDA ep :
                          /\ ep.VpcId = vpc_id
                          /\ ep.ServiceName = service_name)]

\* check_existing_endpoint: None (known = FALSE) when the query raises, else
\* the list of the endpoints of (vpc, service) that are not deleted,
\* deleting or failed
check_existing_endpoint(query_ok, eps, vpc_id, service_name) ==
    IF ~query_ok THEN [known |-> FALSE, existing |-> <<>>]
    ELSE [known |-> TRUE,
          existing |-> SelectSeq(eps, LAMBDA ep :
                          /\ ep.VpcId = vpc_id
                          /\ ep.ServiceName = service_name
                          /\ ep.State \notin TerminalStates)]

\* the networks the flows run against: (subnets, route tables)
NetworkConfigs ==
    LET sub(i, az) == [SubnetId |-> i, AvailabilityZone |-> az, State |-> "available"]
        main == [RouteTableId |-> "rtb-0",
                 Associations |-> <<[Main |-> TRUE, SubnetId |-> NoSubnet]>>]
        rt1 == [RouteTableId |-> "rtb-1",
                Associations |-> <<[Main |-> FALSE, SubnetId |-> 1]>>]
    IN  { <<<<sub(1, "az-a"), sub(2, "az-b")>>, <<main, rt1>>>>,
          <<<<sub(1, "az-a")>>, <<main>>>> }

\* a VPC the reference instance is not in, with one subnet and its main
\* route table
OtherVpc == "vpc-2"

\* describe_subnets with the vpc-id filter
SubnetsIn(vpc_id) ==
    IF vpc_id \in VpcIds THEN subnets
    ELSE IF vpc_id = OtherVpc
    THEN <<[SubnetId |-> 9, AvailabilityZone |-> "az-a", State |-> "available"]>>
    ELSE <<>>

\* describe_route_tables with the vpc-id filter
RouteTablesIn(vpc_id) ==
    IF vpc_id \in VpcIds THEN route_tables
    ELSE IF vpc_id = OtherVpc
    THEN <<[RouteTableId |-> "rtb-9",
            Associations |-> <<[Main |-> TRUE, SubnetId |-> NoSubnet]>>]>>
    ELSE <<>>

\* the request create_vpc_endpoint gets; a key the code does not set is NoneVal
\* (VpcEndpointType) or the empty list
CreationParams(endpoint_type, vpc_id, service_name, route_table_ids, subnet_ids, security_group_ids) ==
    [VpcEndpointType |-> endpoint_type, VpcId |-> vpc_id, ServiceName |-> service_name,
     RouteTableIds |-> route_table_ids, SubnetIds |-> subnet_ids,
     SecurityGroupIds |-> security_group_ids]

\* no create_vpc_endpoint request
NoRequest == CreationParams(NoneVal, NoneVal, <<>>, <<>>, <<>>, <<>>)

\* the provisioning API accepts a request: the new endpoint starts as pending
Created(eps, params) ==
    Append(eps, [VpcId |-> params.VpcId, ServiceName |-> params.ServiceName,
                 State |-> "pending"])

NoCliCall == [seq |-> 0, service |-> NoneVal, reference |-> FALSE, fault |-> "none",
              result |-> "none", prompts |-> <<>>, selected |-> FALSE,
              existing |-> "notrun", request |-> NoRequest, answer |-> NoneVal]

EnvIdle ==
    /\ instance = CHOOSE i \in InstanceStates :
                      /\ i.found
                      /\ Truthy(i.VpcId)
                      /\ Truthy(i.SubnetId)
                      /\ i.SecurityGroups # <<>>
    /\ endpoints = <<>>

CliIdle == cli_last = NoCliCall

\* the VPC gets its subnets and route tables
NetworkSetup ==
    /\ subnets = <<>>
    /\ route_tables = <<>>
    /\ \E cfg \in NetworkConfigs :
         /\ subnets' = cfg[1]
         /\ route_tables' = cfg[2]
    /\ UNCHANGED <<instance, endpoints, env_others>>

\* the subnets and route tables of the VPC are deleted
NetworkDeleted ==
    /\ subnets # <<>>
    /\ subnets' = <<>>
    /\ route_tables' = <<>>
    /\ UNCHANGED <<instance, endpoints, env_others>>

\* describe_instances reports the instance differently from now on: it was
\* terminated, stopped being listed, or lost or got back an attribute
InstanceChanges ==
    /\ \E i \in InstanceStates \ {instance} : instance' = i
    /\ UNCHANGED <<subnets, route_tables, endpoints, env_others>>

\* somebody else creates an endpoint for a service in the VPC
EndpointAppears ==
    /\ Len(endpoints) < MaxEndpoints
    /\ \E vpc \in VpcIds, service \in Services :
         endpoints' = Append(endpoints,
             [VpcId |-> vpc, ServiceName |-> ServiceNameCli("region-a", service),
              State |-> "pending"])
    /\ UNCHANGED <<subnets, route_tables, instance, env_others>>

\* an endpoint moves on in its life cycle
EndpointAdvances ==
    /\ \E i \in DOMAIN endpoints, st \in EndpointStates :
         /\ \/ endpoints[i].State = "pending" /\ st \in {"available", "failed"}
            \/ endpoints[i].State = "available" /\ st = "deleting"
            \/ endpoints[i].State = "deleting" /\ st = "deleted"
         /\ endpoints' = [endpoints EXCEPT ![i].State = st]
    /\ UNCHANGED <<subnets, route_tables, instance, env_others>>

\* the points at which a call of the cloud API can fail during one run of a
\* flow; every one of them ends the run, so one run meets at most one
Faults == {"none", "client", "check", "select", "api"}

\* the outcome of create_vpc_endpoint_interactive.  The inputs beyond the
\* arguments are what the collaborators answer: the API call that fails, the
\* VPC the user picks at the prompt (NoneVal: none), the security groups the
\* user picks, and the answer to the confirmation prompt (recorded when the
\* prompt was reached).
\* The result is [last, endpoints].
create_vpc_endpoint_interactive(service, region, reference, fault, picked_vpc, picked_sgs, answer) ==
    LET out(result, prompts, selected, existing, request, eps) ==
            [last |-> [seq |-> cli_last.seq + 1, service |-> service,
                       reference |-> reference, fault |-> fault,
                       result |-> result, prompts |-> prompts, selected |-> selected,
                       existing |-> existing, request |-> request,
                       answer |-> IF prompts # <<>> /\ prompts[Len(prompts)] = "confirm"
                                  THEN answer ELSE NoneVal],
             endpoints |-> eps]
        stop(result, prompts, selected, existing) ==
            out(result, prompts, selected, existing, NoRequest, endpoints)
        details == IF reference THEN get_instance_network_details(TRUE, instance)
                   ELSE NoDetails
        auto_filled_sg == details.ok
        vpc_id == IF details.ok THEN details.vpc_id ELSE picked_vpc
        p1 == IF details.ok THEN <<>> ELSE <<"vpc">>
        endpoint_type == IF service = "S3" THEN "Gateway" ELSE "Interface"
        service_name_to_create == ServiceNameCli(region, service)
        existing_endpoints ==
            check_existing_endpoint(fault # "check", endpoints, vpc_id,
                                    service_name_to_create)
        route_table_ids ==
            select_route_tables_for_ha(fault # "select", subnets, fault # "select",
                                       route_tables, 3)
        subnet_ids == select_subnets_for_ha(fault # "select", subnets, 3)
        security_group_ids ==
            IF auto_filled_sg THEN details.security_group_ids ELSE picked_sgs
        p2 == IF endpoint_type = "Interface" /\ ~auto_filled_sg
              THEN Append(p1, "sg") ELSE p1
        params ==
            IF endpoint_type = "Gateway"
            THEN CreationParams(endpoint_type, vpc_id, service_name_to_create,
                                route_table_ids, <<>>, <<>>)
            ELSE CreationParams(endpoint_type, vpc_id, service_name_to_create,
                                <<>>, subnet_ids, security_group_ids)
    IN  IF fault = "client" THEN stop("no_client", <<>>, FALSE, "notrun")
        ELSE IF ~Truthy(vpc_id) THEN stop("no_vpc", p1, FALSE, "notrun")
        ELSE IF service \notin {"S3", "ECR"} THEN stop("unsupported", p1, FALSE, "notrun")
        ELSE IF ~existing_endpoints.known THEN stop("check_failed", p1, FALSE, "unknown")
        ELSE IF existing_endpoints.existing # <<>> THEN stop("skipped", p1, FALSE, "exists")
        ELSE IF endpoint_type = "Gateway" /\ route_table_ids = <<>>
             THEN stop("selection_failed", p1, TRUE, "empty")
        ELSE IF endpoint_type = "Interface" /\ subnet_ids = <<>>
             THEN stop("selection_failed", p1, TRUE, "empty")
        ELSE IF endpoint_type = "Interface" /\ security_group_ids = <<>>
             THEN stop("no_sg", p2, TRUE, "empty")
        ELSE IF answer # "y" THEN stop("cancelled", Append(p2, "confirm"), TRUE, "empty")
        ELSE IF fault = "api"
             THEN out("create_error", Append(p2, "confirm"), TRUE, "empty",
                      params, endpoints)
        ELSE out("created", Append(p2, "confirm"), TRUE, "empty",
                 params, Created(endpoints, params))

\* a call create_vpc_endpoint_interactive(service, region, count, reference)
CliPropose ==
    /\ cli_last.seq < MaxCliRuns
    /\ \E service \in Services \cup {"EC2"}, reference \in BOOLEAN, fault \in Faults,
       picked_vpc \in VpcIds \cup {NoneVal}, picked_sgs \in {<<>>, <<"sg-2">>},
       answer \in {"y", "n"} :
      LET r == create_vpc_endpoint_interactive(service, "region-a", reference, fault,
                                               picked_vpc, picked_sgs, answer)
      IN  /\ Len(r.endpoints) <= MaxEndpoints
          /\ cli_last' = r.last
          /\ endpoints' = r.endpoints
          /\ UNCHANGED <<subnets, route_tables, instance, cli_others>>

CliNext ==
    \/ NetworkSetup
    \/ EndpointAppears
    \/ EndpointAdvances
    \/ CliPropose

(***************************************************************************)
(* The Lambda workflow: lambda_handler run on asynchronous invocations     *)
(* (propose_creation, execute_creation) and on Slack button callbacks.     *)
(*                                                                         *)
(* An event is a record with every key the handler reads; keys is the set  *)
(* of the keys the event really has, and a key it lacks reads as NoneVal   *)
(* (analysis_result: as the empty list).                                   *)
(***************************************************************************)
AsyncKeys == {"action", "response_url", "instance_id", "region"}

ExecuteKeys == {"service", "vpc_id", "endpoint_type"}

\* the response_url of a slash command: one of 80 characters, and one of
\* 1825 characters, with which the button value of an S3 candidate has 2000
\* characters and that of an ECR candidate 2003
ShortUrl == "https://hooks/short"

LongUrl == "https://hooks/long"

\* len() of the strings that go into a button value
StrLen(str) ==
    CASE str = LongUrl -> 1825
      [] str = ShortUrl -> 80
      [] str = "confirm_creation" -> 16
      [] str = "endpoint_type" -> 13
      [] str = "response_url" -> 12
      [] str = "instance_id" -> 11
      [] str = "i-1" -> 19
      [] str = "Interface" -> 9
      [] str = "region-a" -> 9
      [] str = "region-b" -> 9
      [] str \in {"Gateway", "service"} -> 7
      [] str \in {"action", "region", "vpc_id"} -> 6
      [] str \in {"vpc-1", "vpc-2"} -> 5
      [] str = "ECR" -> 3
      [] str = "S3" -> 2
      [] OTHER -> 4

\* A JSON text is the sequence of its tokens, [t, v]: a punctuation mark, a
\* quoted string or the literal null.
Punct(c) == [t |-> "punct", v |-> c]

Str(s) == [t |-> "str", v |-> s]

Null == [t |-> "null", v |-> "null"]

\* a serializer that writes null for every value
JsonValue_null(x) == Null

\* the JSON value of a string-or-None
JsonValue(x) == IF x = NoneVal THEN Null ELSE Str(x)

RECURSIVE DumpsItems(_)
DumpsItems(pairs) ==
    IF pairs = <<>> THEN <<>>
    ELSE <<Str(pairs[1][1]), Punct(":"), JsonValue(pairs[1][2])>>
         \o (IF Tail(pairs) = <<>> THEN <<>>
             ELSE <<Punct(",")>> \o DumpsItems(Tail(pairs)))

\* json.dumps of a dict of strings, given as its (key, value) pairs in
\* insertion order
Dumps(pairs) == <<Punct("{")>> \o DumpsItems(pairs) \o <<Punct("}")>>

\* len() of one token in the text json.dumps writes: quotes around a string,
\* a blank after a colon and after a comma
TokenLen(tok) ==
    IF tok.t = "str" THEN StrLen(tok.v) + 2
    ELSE IF tok.t = "null" THEN 4
    ELSE IF tok.v \in {":", ","} THEN 2
    ELSE 1

\* a length that counts the tokens of the text, not its characters
JsonLen_tokens(text) == Len(text)

\* len(button_value_str)
RECURSIVE JsonLen(_)
JsonLen(text) == IF text = <<>> THEN 0 ELSE TokenLen(Head(text)) + JsonLen(Tail(text))

\* json.loads of a text that should hold a dict of strings: [ok, pairs];
\* ok = FALSE is json.JSONDecodeError
Loads(text) ==
    LET n == (Len(text) - 1) \div 4
        wellformed ==
            /\ Len(text) >= 2
            /\ text[1] = Punct("{")
            /\ text[Len(text)] = Punct("}")
            /\ Len(text) = (IF n = 0 THEN 2 ELSE 4 * n + 1)
            /\ \A i \in 1..n :
                  /\ text[4 * i - 2].t = "str"
                  /\ text[4 * i - 1] = Punct(":")
                  /\ text[4 * i].t \in {"str", "null"}
                  /\ i < n => text[4 * i + 1] = Punct(",")
    IN  IF ~wellformed THEN [ok |-> FALSE, pairs |-> <<>>]
        ELSE [ok |-> TRUE,
              pairs |-> [i \in 1..n |->
                            <<text[4 * i - 2].v,
                              IF text[4 * i].t = "null" THEN NoneVal
                              ELSE text[4 * i].v>>]]

\* value_data.get(key) on the dict json.loads returned: a key that occurs
\* twice has its last value
DictGet(pairs, key) ==
    IF \E i \in DOMAIN pairs : pairs[i][1] = key
    THEN pairs[CHOOSE i \in DOMAIN pairs :
                 /\ pairs[i][1] = key
                 /\ \A j \in DOMAIN pairs : pairs[j][1] = key => j <= i][2]
    ELSE NoneVal

\* json.loads followed by dict.get(key)
LoadsGet(text, key) == DictGet(Loads(text).pairs, key)

\* Lambda: com.amazonaws.{region}.{service.lower() or ecr.dkr}
ServiceNameLambda(region, service) ==
    <<"com.amazonaws", region, IF service # "ECR" THEN Lower(service) ELSE "ecr.dkr">>

AsyncEvent(action, response_url, instance_id, region, analysis_result, service, vpc_id, endpoint_type, keys) ==
    [action |-> action, response_url |-> response_url, instance_id |-> instance_id,
     region |-> region, analysis_result |-> analysis_result, service |-> service,
     vpc_id |-> vpc_id, endpoint_type |-> endpoint_type, keys |-> keys]

\* not event.get(k)
Falsy(event, k) ==
    \/ k \notin event.keys
    \/ IF k = "analysis_result" THEN event.analysis_result = <<>>
       ELSE ~Truthy(event[k])

required_async_keys(event) ==
    AsyncKeys
    \cup (IF event.action = "propose_creation" /\ "analysis_result" \notin event.keys
          THEN {"analysis_result"} ELSE {})
    \cup (IF /\ ~(event.action = "propose_creation" /\ "analysis_result" \notin event.keys)
             /\ event.action = "execute_creation"
             /\ ~(ExecuteKeys \subseteq event.keys)
          THEN ExecuteKeys ELSE {})

missing_keys(event) == {k \in required_async_keys(event) : Falsy(event, k)}

\* a message sent with send_slack_message: its kind, whether it replaces the
\* original, and for a block message one item per candidate that got blocks
SlackMessage(kind, replace, items) ==
    [kind |-> kind, replace |-> replace, items |-> items]

NoMessage == SlackMessage("none", FALSE, <<>>)

\* the blocks of one candidate: what they report and, when they hold the
\* approve button, its value
Blocks(service, outcome, value) ==
    [service |-> service, outcome |-> outcome, value |-> value]

\* the result of one run of lambda_handler: the status returned, the messages
\* sent, the invocations started, the create request issued, the inventory
\* afterwards
Run(status, sent, invoked, request, eps) ==
    [status |-> status, sent |-> sent, invoked |-> invoked, request |-> request,
     endpoints |-> eps]

\* the length above which propose_creation offers no button
MaxButtonValue == 2000

\* a caller that never takes the check's answer as "exists"
Bool_never(existing) == FALSE

\* an existence check whose every answer but a non-empty list lets the
\* caller go on: Python's truth value of None and of a list
Bool(existing) == existing.known /\ existing.existing # <<>>

\* final_blocks.extend(proposal_blocks) for one candidate, after which the
\* loop goes on to the candidates that follow
Extend(proposal_blocks, rest) == <<proposal_blocks>> \o rest

\* the blocks propose_creation builds in its loop over analysis_result, one
\* entry per candidate that gets any
RECURSIVE ProposeItems(_, _, _, _, _)
ProposeItems(items, event, vpc_id, select_ok, check_fail) ==
    IF items = <<>> THEN <<>>
    ELSE
      LET item == Head(items)
          rest == ProposeItems(Tail(items), event, vpc_id, select_ok, check_fail)
          service == item.service
          region == event.region
          endpoint_type == IF service = "S3" THEN "Gateway" ELSE "Interface"
          service_name_to_create == ServiceNameLambda(region, service)
          existing == check_existing_endpoint(service \notin check_fail, endpoints,
                                              vpc_id, service_name_to_create)
          route_table_ids ==
              select_route_tables_for_ha(select_ok, SubnetsIn(vpc_id), select_ok,
                                         RouteTablesIn(vpc_id), 3)
          subnet_ids == select_subnets_for_ha(select_ok, SubnetsIn(vpc_id), 3)
          selected == IF endpoint_type = "Gateway" THEN route_table_ids # <<>>
                      ELSE subnet_ids # <<>>
          button_value_str ==
              Dumps(<< <<"action", "confirm_creation">>,
                       <<"instance_id", event.instance_id>>,
                       <<"region", region>>,
                       <<"service", service>>,
                       <<"vpc_id", vpc_id>>,
                       <<"endpoint_type", endpoint_type>>,
                       <<"response_url", event.response_url>> >>)
      IN  IF ~Truthy(service) \/ ~Truthy(item.region) THEN rest
          ELSE IF item.region # region THEN rest
          ELSE IF Bool(existing) THEN Extend(Blocks(service, "skipped", <<>>), rest)
          ELSE IF ~selected THEN Extend(Blocks(service, "selection_failed", <<>>), rest)
          ELSE IF JsonLen(button_value_str) > MaxButtonValue
               THEN Extend(Blocks(service, "too_long", <<>>), rest)
          ELSE Extend(Blocks(service, "proposal", button_value_str), rest)

\* the instance the inventory knows is i-1
InstanceOf(instance_id) ==
    IF instance_id = "i-1" THEN instance
    ELSE [found |-> FALSE, VpcId |-> NoneVal, SubnetId |-> NoneVal,
          SecurityGroups |-> <<>>]

\* lambda_handler, action propose_creation, after the parameter check
propose_creation(event, fault, check_fail) ==
    LET network_details ==
            get_instance_network_details(TRUE, InstanceOf(event.instance_id))
        final_blocks == ProposeItems(event.analysis_result, event,
                                     network_details.vpc_id, fault # "select",
                                     check_fail)
    IN  IF fault = "client" \/ ~network_details.ok
        THEN Run(200, <<SlackMessage("error", TRUE, <<>>)>>, {}, NoRequest, endpoints)
        ELSE IF final_blocks # <<>>
        THEN Run(200, <<SlackMessage("blocks", TRUE, final_blocks)>>, {}, NoRequest,
                 endpoints)
        ELSE Run(200, <<SlackMessage("no_proposals", TRUE, <<>>)>>, {}, NoRequest,
                 endpoints)

\* an execute_creation that does not look at what the selection returned nor
\* at the endpoint type
execute_creation_unchecked(event, fault) ==
    LET service == event.service
        vpc_id == event.vpc_id
        endpoint_type == event.endpoint_type
        service_name_to_create == ServiceNameLambda(event.region, service)
        network_details ==
            get_instance_network_details(TRUE, InstanceOf(event.instance_id))
        route_table_ids ==
            select_route_tables_for_ha(fault # "select", SubnetsIn(vpc_id),
                                       fault # "select", RouteTablesIn(vpc_id), 3)
        subnet_ids == select_subnets_for_ha(fault # "select", SubnetsIn(vpc_id), 3)
        creation_params ==
            IF endpoint_type = "Gateway"
            THEN CreationParams(endpoint_type, vpc_id, service_name_to_create,
                                route_table_ids, <<>>, <<>>)
            ELSE CreationParams(endpoint_type, vpc_id, service_name_to_create, <<>>,
                                subnet_ids, network_details.security_group_ids)
        failed(request) ==
            Run(200, <<SlackMessage("create_failed", TRUE, <<>>)>>, {}, request, endpoints)
    IN  IF fault = "client" THEN failed(NoRequest)
        ELSE IF service = NoneVal THEN failed(NoRequest)
        ELSE IF ~network_details.ok THEN failed(NoRequest)
        ELSE IF fault = "api" THEN failed(creation_params)
        ELSE Run(200, <<SlackMessage("created", TRUE, <<>>)>>, {}, creation_params,
                 Created(endpoints, creation_params))

\* lambda_handler, action execute_creation, after the parameter check
execute_creation(event, fault) ==
    LET service == event.service
        vpc_id == event.vpc_id
        endpoint_type == event.endpoint_type
        service_name_to_create == ServiceNameLambda(event.region, service)
        network_details ==
            get_instance_network_details(TRUE, InstanceOf(event.instance_id))
        route_table_ids ==
            select_route_tables_for_ha(fault # "select", SubnetsIn(vpc_id),
                                       fault # "select", RouteTablesIn(vpc_id), 3)
        subnet_ids == select_subnets_for_ha(fault # "select", SubnetsIn(vpc_id), 3)
        creation_params ==
            IF endpoint_type = "Gateway"
            THEN CreationParams(endpoint_type, vpc_id, service_name_to_create,
                                route_table_ids, <<>>, <<>>)
            ELSE CreationParams(endpoint_type, vpc_id, service_name_to_create, <<>>,
                                subnet_ids, network_details.security_group_ids)
        failed(request) ==
            Run(200, <<SlackMessage("create_failed", TRUE, <<>>)>>, {}, request, endpoints)
    IN  IF fault = "client" THEN failed(NoRequest)
        ELSE IF service = NoneVal THEN failed(NoRequest)
        ELSE IF ~network_details.ok THEN failed(NoRequest)
        ELSE IF endpoint_type = "Gateway" /\ route_table_ids = <<>> THEN failed(NoRequest)
        ELSE IF endpoint_type = "Interface" /\ subnet_ids = <<>> THEN failed(NoRequest)
        ELSE IF endpoint_type \notin {"Gateway", "Interface"} THEN failed(NoRequest)
        ELSE IF fault = "api" THEN failed(creation_params)
        ELSE Run(200, <<SlackMessage("created", TRUE, <<>>)>>, {}, creation_params,
                 Created(endpoints, creation_params))

\* lambda_handler on an event with an "action" key
lambda_handler_async(event, fault, check_fail) ==
    IF missing_keys(event) # {}
    THEN Run(400,
             IF Truthy(event.response_url) /\ "response_url" \in event.keys
             THEN <<SlackMessage("param_error", TRUE, <<>>)>> ELSE <<>>,
             {}, NoRequest, endpoints)
    ELSE IF event.action = "propose_creation"
    THEN propose_creation(event, fault, check_fail)
    ELSE IF event.action = "execute_creation"
    THEN execute_creation(event, fault)
    ELSE Run(200, <<SlackMessage("unknown_action", FALSE, <<>>)>>, {}, NoRequest,
             endpoints)

\* the event a Lambda invocation started with
\* lambda_client.invoke(Payload=json.dumps(lambda_payload)) delivers: the
\* payload is serialized by the caller and parsed again for the handler
InvokedEvent(lambda_payload) ==
    LET event == Loads(Dumps(lambda_payload)).pairs
    IN  AsyncEvent(DictGet(event, "action"),
                   DictGet(event, "response_url"),
                   DictGet(event, "instance_id"),
                   DictGet(event, "region"),
                   <<>>,
                   DictGet(event, "service"),
                   DictGet(event, "vpc_id"),
                   DictGet(event, "endpoint_type"),
                   {event[i][1] : i \in DOMAIN event})

\* lambda_payload of the approve branch: the execute_creation action and
\* the six fields read from the button value
ExecutePayload(value_data) ==
    << <<"action", "execute_creation">>,
       <<"instance_id", DictGet(value_data, "instance_id")>>,
       <<"region", DictGet(value_data, "region")>>,
       <<"service", DictGet(value_data, "service")>>,
       <<"vpc_id", DictGet(value_data, "vpc_id")>>,
       <<"endpoint_type", DictGet(value_data, "endpoint_type")>>,
       <<"response_url", DictGet(value_data, "response_url")>> >>

\* a callback handler that starts the execute_creation step for whatever
\* arrives under an action_id
block_actions_eager(action_id, value_str) ==
    Run(200, <<SlackMessage("requesting", TRUE, <<>>)>>,
        {InvokedEvent(ExecutePayload(Loads(value_str).pairs))}, NoRequest, endpoints)

\* lambda_handler on a Slack block_actions callback: the first action's
\* action_id and value.  Its messages go to the response_url of the callback.
block_actions(action_id, value_str) ==
    LET value_data == Loads(value_str)
        button_action == DictGet(value_data.pairs, "action")
        lambda_payload == ExecutePayload(value_data.pairs)
        required_keys == {"instance_id", "region", "service", "vpc_id",
                          "endpoint_type", "response_url"}
    IN  IF ~Truthy(action_id) \/ value_str = <<>>
        THEN Run(400, <<SlackMessage("button_error", FALSE, <<>>)>>, {}, NoRequest,
                 endpoints)
        ELSE IF ~value_data.ok
        THEN Run(400, <<SlackMessage("button_error", FALSE, <<>>)>>, {}, NoRequest,
                 endpoints)
        ELSE IF action_id = "create_endpoint_yes" /\ button_action = "confirm_creation"
        THEN IF \E k \in required_keys : ~Truthy(DictGet(lambda_payload, k))
             THEN Run(400, <<SlackMessage("requesting", TRUE, <<>>),
                             SlackMessage("button_error", FALSE, <<>>)>>,
                      {}, NoRequest, endpoints)
             ELSE Run(200, <<SlackMessage("requesting", TRUE, <<>>)>>,
                      {InvokedEvent(lambda_payload)}, NoRequest, endpoints)
        ELSE IF action_id = "create_endpoint_no" /\ button_action = "cancel_creation"
        THEN Run(200, <<SlackMessage("cancelled", TRUE, <<>>)>>, {}, NoRequest, endpoints)
        ELSE Run(200, <<SlackMessage("unknown_button", FALSE, <<>>)>>, {}, NoRequest,
                 endpoints)

\* the (service, region) groups in the order groupby().size() lists them
GroupOrder == << <<"ECR", "region-a">>, <<"S3", "region-a">>, <<"S3", "region-b">> >>

\* the result of the analysis as the list the propose_creation step iterates:
\* one {service, region, count} item per group of potential_missing
GapCandidates(missing) ==
    LET kept == SelectSeq(GroupOrder, LAMBDA k : k \in DOMAIN missing)
    IN  [i \in DOMAIN kept |->
            [service |-> kept[i][1], region |-> kept[i][2], count |-> missing[kept[i]]]]

\* n normalized records of one (service, region) group
Rows(n, service, region, used) ==
    [i \in 1..n |-> [service |-> service, region |-> region, usedVpcEndpoint |-> used]]

\* what the event lookup of the analyze_traffic step returns in this model:
\* nothing, one group at the threshold, one group below it, two groups at
\* the threshold, and a group of another region
TrafficSamples ==
    { <<>>,
      Rows(5, "S3", "region-a", No),
      Rows(4, "S3", "region-a", No) \o Rows(1, "S3", "region-a", Yes),
      Rows(5, "ECR", "region-a", No) \o Rows(5, "S3", "region-a", No),
      Rows(5, "S3", "region-b", No) \o Rows(5, "ECR", "region-a", No) }

NoEvent == AsyncEvent(NoneVal, NoneVal, NoneVal, NoneVal, <<>>, NoneVal, NoneVal,
                      NoneVal, {})

\* what a run of the handler got from outside besides its event: the button
\* pressed and its value (a callback), the records the event lookup returned
\* (analyze_traffic)
Given(action_id, value_str, events_list) ==
    [action_id |-> action_id, value |-> value_str, events |-> events_list]

NoInput == Given(NoneVal, <<>>, <<>>)

NoRun == [tick |-> 0, kind |-> "none", event |-> NoEvent, unknown |-> {},
          status |-> 0, sent |-> <<>>, invoked |-> {}, request |-> NoRequest,
          outcome |-> "none", given |-> NoInput]

LamIdle ==
    /\ inflight = {}
    /\ slack = NoMessage
    /\ last = NoRun

\* what the channel shows after the messages of a run: a message that
\* replaces the original takes its place, any other is a follow-up
RECURSIVE Shown(_, _)
Shown(current, sent) ==
    IF sent = <<>> THEN current
    ELSE Shown(IF Head(sent).replace THEN Head(sent) ELSE current, Tail(sent))

\* how a run ended: without a create request, or with one the API accepted
\* or refused
Outcome(r) ==
    IF r.request = NoRequest THEN "done"
    ELSE IF r.endpoints # endpoints THEN "created" ELSE "create_error"

\* the services for which check_existing_endpoint answered None in a run
Unknown(event, fault, check_fail) ==
    IF \/ missing_keys(event) # {}
       \/ event.action # "propose_creation"
       \/ fault = "client"
       \/ ~get_instance_network_details(TRUE, InstanceOf(event.instance_id)).ok
    THEN {}
    ELSE {event.analysis_result[i].service : i \in
             {j \in DOMAIN event.analysis_result :
                 /\ Truthy(event.analysis_result[j].service)
                 /\ event.analysis_result[j].region = event.region
                 /\ event.analysis_result[j].service \in check_fail}}

\* the record of a run r of the handler: the event it got, the services
\* whose existence was unknown to it, and what it did
RunRecord(kind, event, fault, check_fail, r) ==
    [tick |-> 1 - last.tick, kind |-> kind, event |-> event,
     unknown |-> Unknown(event, fault, check_fail), status |-> r.status,
     sent |-> r.sent, invoked |-> r.invoked, request |-> r.request,
     outcome |-> Outcome(r), given |-> NoInput]

\* the state after a run r of the handler on an event
Ran(kind, event, fault, check_fail, r) ==
    /\ Len(r.endpoints) <= MaxEndpoints
    /\ endpoints' = r.endpoints
    /\ slack' = Shown(slack, r.sent)
    /\ last' = RunRecord(kind, event, fault, check_fail, r)
    /\ UNCHANGED <<subnets, route_tables, instance, lam_others>>

\* an analysis step that starts itself again
analyze_traffic_found_again(event, analysis_result) ==
    Run(200, <<SlackMessage("candidates_found", TRUE, <<>>)>>, {event}, NoRequest,
        endpoints)

\* an analysis step that starts the creation for its first candidate at once
analyze_traffic_found_unconfirmed(event, analysis_result) ==
    Run(200, <<SlackMessage("candidates_found", TRUE, <<>>)>>,
        {AsyncEvent("execute_creation", event.response_url, event.instance_id,
                    event.region, <<>>, analysis_result[1].service, "vpc-1",
                    "Gateway", AsyncKeys \cup ExecuteKeys)},
        NoRequest, endpoints)

\* lambda_handler, action analyze_traffic, when the analysis found the
\* candidates of analysis_result: it reports that and starts the
\* propose_creation step
analyze_traffic_found(event, analysis_result) ==
    Run(200, <<SlackMessage("candidates_found", TRUE, <<>>)>>,
        {AsyncEvent("propose_creation", event.response_url, event.instance_id,
                    event.region, analysis_result, NoneVal, NoneVal, NoneVal,
                    AsyncKeys \cup {"analysis_result"})},
        NoRequest, endpoints)

\* an analysis step that starts the propose_creation step whatever it found
analyze_traffic_always(event, events_list) ==
    analyze_traffic_found(event,
        GapCandidates(analyze_endpoint_usage(events_list, ENDPOINT_MISSING_THRESHOLD)))

\* lambda_handler, action analyze_traffic, after the parameter check;
\* events_list is what the event lookup returned
analyze_traffic(event, events_list) ==
    LET analysis_result ==
            GapCandidates(analyze_endpoint_usage(events_list, ENDPOINT_MISSING_THRESHOLD))
    IN  IF events_list = <<>>
        THEN Run(200, <<SlackMessage("no_traffic", FALSE, <<>>)>>, {}, NoRequest,
                 endpoints)
        ELSE IF analysis_result = <<>>
        THEN Run(200, <<SlackMessage("no_gap", TRUE, <<>>)>>, {}, NoRequest, endpoints)
        ELSE analyze_traffic_found(event, analysis_result)

\* a workflow starts: the analyze_traffic step of a new slash command runs;
\* its response_url shows nothing of an earlier workflow
AnalyzeTraffic ==
    /\ inflight = {}
    /\ \E events_list \in TrafficSamples, response_url \in {ShortUrl, LongUrl} :
         LET event == AsyncEvent("analyze_traffic", response_url, "i-1", "region-a",
                                 <<>>, NoneVal, NoneVal, NoneVal, AsyncKeys)
             r == analyze_traffic(event, events_list)
         IN  /\ missing_keys(event) = {}
             /\ inflight' = r.invoked
             /\ endpoints' = r.endpoints
             /\ slack' = Shown(NoMessage, r.sent)
             /\ last' = [RunRecord("async", event, "none", {}, r)
                           EXCEPT !.given = Given(NoneVal, <<>>, events_list)]
    /\ UNCHANGED <<subnets, route_tables, instance, lam_others>>

\* an asynchronous invocation is delivered and lambda_handler runs on it; the
\* invocation is then acknowledged, or stays in flight and is delivered again
\* later (delivery is at least once)
Deliver(event, fault, check_fail, again) ==
    LET r == lambda_handler_async(event, fault, check_fail)
    IN  /\ inflight' = (IF again THEN inflight ELSE inflight \ {event}) \cup r.invoked
        /\ Ran("async", event, fault, check_fail, r)

ProposeCreation ==
    \E event \in inflight, fault \in {"none", "client"},
       check_fail \in SUBSET Services, again \in BOOLEAN :
      /\ event.action = "propose_creation"
      /\ Deliver(event, fault, check_fail, again)

ExecuteCreation ==
    \E event \in inflight, fault \in {"none", "client", "api"}, again \in BOOLEAN :
      /\ event.action = "execute_creation"
      /\ Deliver(event, fault, {}, again)

\* the events lambda_handler is invoked with by a caller other than itself:
\* an execute_creation event that names another VPC than the instance's, one
\* without response_url, one without endpoint_type and with an empty service,
\* and an unknown action
DirectEvents ==
    { AsyncEvent("execute_creation", ShortUrl, "i-1", "region-a", <<>>, "S3", OtherVpc,
                 "Gateway", AsyncKeys \cup ExecuteKeys),
      AsyncEvent("execute_creation", NoneVal, "i-1", "region-a", <<>>, "S3", "vpc-1",
                 "Gateway", (AsyncKeys \ {"response_url"}) \cup ExecuteKeys),
      AsyncEvent("execute_creation", ShortUrl, "i-1", "region-a", <<>>, "", "vpc-1",
                 "Gateway", AsyncKeys \cup {"service", "vpc_id"}),
      AsyncEvent("cleanup", ShortUrl, "i-1", "region-a", <<>>, NoneVal, NoneVal,
                 NoneVal, AsyncKeys) }

\* lambda_handler is invoked directly with an event that has an "action" key
DirectInvoke ==
    \E event \in DirectEvents :
      LET r == lambda_handler_async(event, "none", {})
      IN  /\ inflight' = inflight \cup r.invoked
          /\ Ran("async", event, "none", {}, r)

\* a block_actions callback arrives for a proposal the channel shows: the
\* value of one of its two buttons, or a value cut short on the way, under
\* the action_id of a button or another one
ButtonClick ==
    /\ slack.kind = "blocks"
    /\ \E i \in DOMAIN slack.items,
          action_id \in {"create_endpoint_yes", "create_endpoint_no", "create_endpoint_maybe"},
          sent_value \in {"yes", "no", "cut"} :
         /\ slack.items[i].outcome = "proposal"
         /\ LET value_str ==
                    IF sent_value = "yes" THEN slack.items[i].value
                    ELSE IF sent_value = "no" THEN Dumps(<< <<"action", "cancel_creation">> >>)
                    ELSE SubSeq(slack.items[i].value, 1, 3)
                r == block_actions(action_id, value_str)
            IN  /\ inflight' = inflight \cup r.invoked
                /\ endpoints' = r.endpoints
                /\ slack' = Shown(slack, r.sent)
                /\ last' = [RunRecord("button", NoEvent, "none", {}, r)
                              EXCEPT !.given = Given(action_id, value_str, <<>>)]
    /\ UNCHANGED <<subnets, route_tables, instance, lam_others>>

\* lambda_handler on a slash command: command and response_url are the form
\* fields, instance_id and region what the two regular expressions find in
\* the text (NoneVal: no match); invoke_ok is FALSE when lambda_client.invoke
\* raises.  The usage error goes back in the HTTP response.
slash_command(command, response_url, instance_id, region, invoke_ok) ==
    IF ~Truthy(command) \/ ~Truthy(response_url)
    THEN Run(400, <<>>, {}, NoRequest, endpoints)
    ELSE IF ~Truthy(instance_id) \/ ~Truthy(region)
    THEN Run(200, <<SlackMessage("usage", FALSE, <<>>)>>, {}, NoRequest, endpoints)
    ELSE IF ~invoke_ok
    THEN Run(500, <<SlackMessage("started", FALSE, <<>>),
                    SlackMessage("post_error", FALSE, <<>>)>>, {}, NoRequest, endpoints)
    ELSE Run(200, <<SlackMessage("started", FALSE, <<>>)>>,
             {AsyncEvent("analyze_traffic", response_url, instance_id, region, <<>>,
                         NoneVal, NoneVal, NoneVal, AsyncKeys)},
             NoRequest, endpoints)

\* a slash command arrives while no step is in flight: a new workflow, whose
\* response_url shows nothing of an earlier one
SlashCommand ==
    /\ inflight = {}
    /\ \E command \in {NoneVal, "/vpc"}, response_url \in {NoneVal, ShortUrl, LongUrl},
          instance_id \in {NoneVal, "i-1"}, region \in {NoneVal, "region-a"},
          invoke_ok \in BOOLEAN :
         LET r == slash_command(command, response_url, instance_id, region, invoke_ok)
             form == [NoEvent EXCEPT !.action = command, !.response_url = response_url,
                                     !.instance_id = instance_id, !.region = region]
         IN  /\ inflight' = r.invoked
             /\ endpoints' = r.endpoints
             /\ slack' = NoMessage
             /\ last' = RunRecord("slash", form, "none", {}, r)
    /\ UNCHANGED <<subnets, route_tables, instance, lam_others>>

\* the analyze_traffic invocation of a slash command is delivered
AnalyzeStep ==
    \E event \in inflight, events_list \in TrafficSamples :
      /\ event.action = "analyze_traffic"
      /\ LET r == analyze_traffic(event, events_list)
         IN  /\ missing_keys(event) = {}
             /\ inflight' = (inflight \ {event}) \cup r.invoked
             /\ endpoints' = r.endpoints
             /\ slack' = Shown(slack, r.sent)
             /\ last' = [RunRecord("async", event, "none", {}, r)
                           EXCEPT !.given = Given(NoneVal, <<>>, events_list)]
      /\ UNCHANGED <<subnets, route_tables, instance, lam_others>>

\* the workflow from the slash command on
ChNext ==
    \/ NetworkSetup
    \/ SlashCommand
    \/ AnalyzeStep
    \/ ProposeCreation
    \/ ButtonClick
    \/ ExecuteCreation

\* the event with the key k missing, and with an empty value under it
Without(event, k) ==
    [event EXCEPT ![k] = IF k = "analysis_result" THEN <<>> ELSE NoneVal,
                  !.keys = @ \ {k}]

Blank(event, k) ==
    [event EXCEPT ![k] = IF k = "analysis_result" THEN <<>> ELSE ""]

\* the events of the two later steps as the handler can be invoked with them:
\* complete ones, among them an endpoint type the handler does not know, and
\* each of them with one key missing or empty
StepEvents ==
    LET execute == {AsyncEvent("execute_creation", ShortUrl, "i-1", "region-a", <<>>,
                               e[1], "vpc-1", e[2], AsyncKeys \cup ExecuteKeys) :
                       e \in {<<"S3", "Gateway">>, <<"ECR", "Interface">>,
                              <<"S3", "GatewayLoadBalancer">>}}
        gateway == AsyncEvent("execute_creation", ShortUrl, "i-1", "region-a", <<>>,
                              "S3", "vpc-1", "Gateway", AsyncKeys \cup ExecuteKeys)
        propose == AsyncEvent("propose_creation", ShortUrl, "i-1", "region-a",
                              GapCandidates(analyze_endpoint_usage(
                                  Rows(5, "S3", "region-a", No),
                                  ENDPOINT_MISSING_THRESHOLD)),
                              NoneVal, NoneVal, NoneVal,
                              AsyncKeys \cup {"analysis_result"})
    IN  execute \cup {propose}
        \cup {Without(gateway, k) : k \in (AsyncKeys \cup ExecuteKeys) \ {"action"}}
        \cup {Blank(gateway, k) : k \in AsyncKeys \cup ExecuteKeys}
        \cup {Without(propose, k) : k \in (AsyncKeys \cup {"analysis_result"}) \ {"action"}}
        \cup {Blank(propose, k) : k \in AsyncKeys \cup {"analysis_result"}}

\* lambda_handler is invoked with the event of a step
InvokeStep ==
    \E event \in StepEvents, fault \in {"none", "client", "select", "api"} :
      LET r == lambda_handler_async(event, fault, {})
      IN  /\ inflight' = inflight \cup r.invoked
          /\ Ran("async", event, fault, {}, r)

LamNext ==
    \/ NetworkSetup
    \/ NetworkDeleted
    \/ EndpointAppears
    \/ EndpointAdvances
    \/ AnalyzeTraffic
    \/ ProposeCreation
    \/ ButtonClick
    \/ ExecuteCreation
    \/ DirectInvoke

(***************************************************************************)
(* The command line: main() of vpc_endpoint_checker.py.                    *)
(*                                                                         *)
(* A run of main is recorded with its arguments, the mode banners it       *)
(* printed, how it ended ("argument": parser.error, an exit code, or      *)
(* "return") and the calls it made in order: the event lookup, the         *)
(* reference instance lookup and the proposals.                            *)
(***************************************************************************)
\* args after parse_args: an option that is not on the command line reads
\* as NoneVal
MainArgs ==
    [instance_id : {NoneVal, "", "i-1"},
     region : {NoneVal, "", "region-a"},
     reference_instance_id : {NoneVal, "", "i-1"}]

NoArgs == [instance_id |-> NoneVal, region |-> NoneVal, reference_instance_id |-> NoneVal]

MainRun(args, started, exit, calls) ==
    [args |-> args, started |-> started, exit |-> exit, calls |-> calls]

NoMain == MainRun(NoArgs, <<>>, "none", <<>>)

LookupCall(region, target_instance_id) ==
    [call |-> "lookup", region |-> region, target |-> target_instance_id,
     service |-> NoneVal, request |-> NoRequest]

DetailsCall(region, instance_id) ==
    [call |-> "details", region |-> region, target |-> instance_id,
     service |-> NoneVal, request |-> NoRequest]

ProposeCall(service, region, reference_instance_id, request) ==
    [call |-> "propose", region |-> region, target |-> reference_instance_id,
     service |-> service, request |-> request]

\* for (service, region), count in potential_missing.items():
\*     create_vpc_endpoint_interactive(service, region, count, reference)
\* done is [last, endpoints, calls] after the candidates handled so far; the
\* candidates differ in service or region, so a call sees of the endpoints
\* the earlier calls created none of its own service name
Proposed(done, c, reference_instance_id, r) ==
    [last |-> [r.last EXCEPT !.seq = done.last.seq + 1],
     endpoints |-> done.endpoints \o
                   SubSeq(r.endpoints, Len(endpoints) + 1, Len(r.endpoints)),
     calls |-> Append(done.calls,
                      ProposeCall(c.service, c.region, reference_instance_id,
                                  r.last.request))]

RECURSIVE ProposeAll(_, _, _, _, _, _)
ProposeAll(candidates, reference_instance_id, picked_vpc, picked_sgs, answer, done) ==
    IF candidates = <<>> THEN done
    ELSE ProposeAll(Tail(candidates), reference_instance_id, picked_vpc,
                    picked_sgs, answer,
             Proposed(done, Head(candidates), reference_instance_id,
                      create_vpc_endpoint_interactive(
                          Head(candidates).service, Head(candidates).region,
                          reference_instance_id # NoneVal, "none", picked_vpc,
                          picked_sgs, answer)))

\* the part of main both modes share: the event lookup, the analysis and
\* the proposals.  The result is [run, last, endpoints].
Returned(args, started, done) ==
    [run |-> MainRun(args, started, "return", done.calls), last |-> done.last,
     endpoints |-> done.endpoints]

Analysis(args, started, before, region, target_instance_id, reference_instance_id, df, picked_vpc, picked_sgs, answer) ==
    LET calls == Append(before, LookupCall(region, target_instance_id))
        potential == GapCandidates(analyze_endpoint_usage(df, ENDPOINT_MISSING_THRESHOLD))
    IN  IF df = <<>> \/ potential = <<>>
        THEN [run |-> MainRun(args, started, "0", calls), last |-> cli_last,
              endpoints |-> endpoints]
        ELSE Returned(args, started,
                 ProposeAll(potential, reference_instance_id, picked_vpc, picked_sgs,
                            answer,
                            [last |-> cli_last, endpoints |-> endpoints,
                             calls |-> calls]))

\* main, the branch of args.instance_id after its two argument checks
instance_mode(args, df, picked_vpc, picked_sgs, answer) ==
    Analysis(args, <<"instance">>, <<>>, args.region, args.instance_id,
             args.instance_id, df, picked_vpc, picked_sgs, answer)

\* main, the else branch: ref_region is what the user types at the prompt
\* for the region of the reference instance, default_region what
\* boto3.Session().region_name gives
manual_mode(args, ref_region, default_region, df, picked_vpc, picked_sgs, answer) ==
    LET stop(calls) == [run |-> MainRun(args, <<"manual">>, "1", calls),
                        last |-> cli_last, endpoints |-> endpoints]
        referenced == Truthy(args.reference_instance_id)
        before == IF referenced
                  THEN <<DetailsCall(ref_region, args.reference_instance_id)>>
                  ELSE <<>>
        ref_id_for_creation == IF referenced THEN args.reference_instance_id
                               ELSE NoneVal
    IN  IF referenced /\ ~Truthy(ref_region) THEN stop(<<>>)
        ELSE IF referenced
                /\ ~get_instance_network_details(
                        TRUE, InstanceOf(args.reference_instance_id)).ok
             THEN stop(before)
        ELSE IF ~Truthy(default_region) THEN stop(before)
        ELSE Analysis(args, <<"manual">>, before, default_region, NoneVal,
                      ref_id_for_creation, df, picked_vpc, picked_sgs, answer)

\* a main that lets a reference instance through in the instance mode
main_noExclusion(args, ref_region, default_region, df, picked_vpc, picked_sgs, answer) ==
    IF Truthy(args.instance_id)
    THEN IF ~Truthy(args.region)
         THEN [run |-> MainRun(args, <<>>, "argument", <<>>), last |-> cli_last,
               endpoints |-> endpoints]
         ELSE instance_mode(args, df, picked_vpc, picked_sgs, answer)
    ELSE manual_mode(args, ref_region, default_region, df, picked_vpc, picked_sgs,
                     answer)

\* main(): parser.error ends the run before anything else is done
main(args, ref_region, default_region, df, picked_vpc, picked_sgs, answer) ==
    LET error == [run |-> MainRun(args, <<>>, "argument", <<>>), last |-> cli_last,
                  endpoints |-> endpoints]
    IN  IF Truthy(args.instance_id)
        THEN IF ~Truthy(args.region) THEN error
             ELSE IF Truthy(args.reference_instance_id) THEN error
             ELSE instance_mode(args, df, picked_vpc, picked_sgs, answer)
        ELSE manual_mode(args, ref_region, default_region, df, picked_vpc,
                         picked_sgs, answer)

MainIdle == main_last = NoMain

main_others == <<an_vars, nz_vars, ha_pc, ha_call, ha_out, lam_vars, ec2_vars, ssm_vars>>

\* the state after a run r of main
MainRan(r) ==
    /\ Len(r.endpoints) <= MaxEndpoints
    /\ main_last' = r.run
    /\ cli_last' = r.last
    /\ endpoints' = r.endpoints
    /\ UNCHANGED <<subnets, route_tables, instance, main_others>>

\* the program is started from the command line, once
Main ==
    /\ main_last = NoMain
    /\ cli_last = NoCliCall
    /\ \E args \in MainArgs, ref_region \in {"", "region-a"},
          default_region \in {NoneVal, "region-a"}, df \in TrafficSamples,
          picked_vpc \in VpcIds \cup {NoneVal}, answer \in {"y", "n"} :
         MainRan(main(args, ref_region, default_region, df, picked_vpc,
                      <<"sg-2">>, answer))

MnNext ==
    \/ NetworkSetup
    \/ InstanceChanges
    \/ EndpointAppears
    \/ Main

(***************************************************************************)
(* The client cache: get_ec2_client and the module-level dict _ec2_clients *)
(***************************************************************************)
\* what can go wrong in one call: boto3.client raises ("create"), or
\* describe_regions raises ("validate")
ClientFaults == {"none", "create", "validate"}

\* the client object of a region
Ec2Client(region) == <<"ec2", region>>

NoClient == <<>>

\* get_ec2_client(region) on the cache: [clients, validated, result]
get_ec2_client(clients, region, fault) ==
    IF region \notin clients
    THEN IF fault = "create"
         THEN [clients |-> clients, validated |-> FALSE, result |-> NoClient]
         ELSE IF fault = "validate"
         THEN [clients |-> clients \cup {region}, validated |-> FALSE,
               result |-> NoClient]
         ELSE [clients |-> clients \cup {region}, validated |-> TRUE,
               result |-> Ec2Client(region)]
    ELSE [clients |-> clients, validated |-> FALSE, result |-> Ec2Client(region)]

NoClientCall == [seq |-> 0, region |-> NoneVal, fault |-> "none", result |-> NoClient]

Ec2Idle ==
    /\ ec2_clients = {}
    /\ ec2_validated = {}
    /\ ec2_last = NoClientCall

ec2_others == <<an_vars, nz_vars, ha_vars, env_vars, cli_vars, lam_vars, main_vars, ssm_vars>>

\* some function of the tool asks for the client of a region
GetEc2Client ==
    /\ ec2_last.seq < MaxClientCalls
    /\ \E region \in Regions, fault \in ClientFaults :
         LET r == get_ec2_client(ec2_clients, region, fault)
         IN  /\ ec2_clients' = r.clients
             /\ ec2_validated' = IF r.validated THEN ec2_validated \cup {region}
                                  ELSE ec2_validated
             /\ ec2_last' = [seq |-> ec2_last.seq + 1, region |-> region,
                             fault |-> fault, result |-> r.result]
    /\ UNCHANGED ec2_others

EcNext == GetEc2Client

(***************************************************************************)
(* The traffic generator: _run_ssm_command_and_wait of run_ecr_command.py, *)
(* one action per call of the SSM API.                                     *)
(***************************************************************************)
max_retries == 60

FinalStatuses == {"Success", "Failed", "Cancelled", "TimedOut"}

\* what get_command_invocation answers: a status, or it raises
\* InvocationDoesNotExist, or another exception
PollResponses ==
    FinalStatuses \cup {"Pending", "InProgress", "InvocationDoesNotExist", "Exception"}

NoReturn == [success |-> FALSE, result |-> "running"]

SsmIdle ==
    /\ ssm_pc = "idle"
    /\ retry_count = 0
    /\ ssm_polls = 0
    /\ final_result = NoneVal
    /\ ssm_out = NoReturn

ssm_others == <<an_vars, nz_vars, ha_vars, env_vars, cli_vars, lam_vars, main_vars, ec2_vars>>

\* send_command: the loop starts, or the outer handler returns (False, None)
SendCommand ==
    /\ ssm_pc = "idle"
    /\ \E sent \in BOOLEAN :
         IF sent
         THEN /\ ssm_pc' = "polling"
              /\ ssm_out' = ssm_out
         ELSE /\ ssm_pc' = "done"
              /\ ssm_out' = [success |-> FALSE, result |-> NoneVal]
    /\ retry_count' = 0
    /\ ssm_polls' = 0
    /\ final_result' = NoneVal
    /\ UNCHANGED ssm_others

\* one pass of the while loop: a get_command_invocation call and what the
\* loop does with its answer
Poll ==
    /\ ssm_pc = "polling"
    /\ retry_count < max_retries
    /\ ssm_polls < MaxPolls
    /\ ssm_polls' = ssm_polls + 1
    /\ \E response \in PollResponses :
         IF response = "InvocationDoesNotExist"
         THEN UNCHANGED <<ssm_pc, retry_count, final_result, ssm_out>>
         ELSE IF response = "Exception"
         THEN /\ retry_count' = retry_count + 1
              /\ UNCHANGED <<ssm_pc, final_result, ssm_out>>
         ELSE IF response \in FinalStatuses
         THEN /\ final_result' = response
              /\ ssm_pc' = "done"
              /\ ssm_out' = [success |-> response = "Success", result |-> response]
              /\ UNCHANGED retry_count
         ELSE /\ final_result' = response
              /\ retry_count' = retry_count + 1
              /\ UNCHANGED <<ssm_pc, ssm_out>>
    /\ UNCHANGED ssm_others

\* the loop condition fails: return False, final_result
GiveUp ==
    /\ ssm_pc = "polling"
    /\ retry_count >= max_retries
    /\ ssm_pc' = "done"
    /\ ssm_out' = [success |-> FALSE, result |-> final_result]
    /\ UNCHANGED <<retry_count, ssm_polls, final_result>>
    /\ UNCHANGED ssm_others

SsNext == SendCommand \/ Poll \/ GiveUp

\* every component before its first operation
Init ==
    /\ AnIdle /\ NzIdle /\ HaIdle /\ EnvIdle /\ CliIdle /\ LamIdle /\ MainIdle
    /\ Ec2Idle /\ SsmIdle

SpecLambda == Init /\ [][LamNext]_vars

\* the Proposing step alone, of the program a behaviour runs: the CLI or the
\* Lambda
CliProposing ==
    /\ last = NoRun
    /\ CliPropose

LambdaStarts ==
    /\ cli_last = NoCliCall
    /\ AnalyzeTraffic

LambdaProposing ==
    /\ cli_last = NoCliCall
    /\ ProposeCreation

PrNext ==
    \/ NetworkSetup
    \/ NetworkDeleted
    \/ EndpointAppears
    \/ EndpointAdvances
    \/ CliProposing
    \/ LambdaStarts
    \/ LambdaProposing

SpecProposing == Init /\ [][PrNext]_vars

LambdaInvoked ==
    /\ cli_last = NoCliCall
    /\ InvokeStep

\* the requests of the program a behaviour runs: the CLI, or the Lambda
\* with its steps invoked one by one
IvNext ==
    \/ NetworkSetup
    \/ NetworkDeleted
    \/ CliProposing
    \/ LambdaInvoked

\* the program a behaviour runs up to its create calls: the CLI, or the
\* Lambda workflow from the analysis on
ApNext ==
    \/ NetworkSetup
    \/ NetworkDeleted
    \/ CliProposing
    \/ LambdaStarts
    \/ LambdaProposing
    \/ ButtonClick
    \/ ExecuteCreation

\* the Lambda workflow up to its proposals, against an inventory that changes
LpNext ==
    \/ NetworkSetup
    \/ NetworkDeleted
    \/ EndpointAppears
    \/ EndpointAdvances
    \/ AnalyzeTraffic
    \/ ProposeCreation

SpecLambdaProposing == Init /\ [][LpNext]_vars

\* the Lambda workflow from the analysis to the create call, in a VPC where
\* nobody else creates endpoints
CfNext ==
    \/ NetworkSetup
    \/ NetworkDeleted
    \/ AnalyzeTraffic
    \/ ProposeCreation
    \/ ButtonClick
    \/ ExecuteCreation

SpecConfirming == Init /\ [][CfNext]_vars

\* the Lambda workflow from the analysis to the create call while the
\* instance it is about changes
RsNext ==
    \/ NetworkSetup
    \/ InstanceChanges
    \/ AnalyzeTraffic
    \/ ProposeCreation
    \/ ButtonClick
    \/ ExecuteCreation

SpecResolution == Init /\ [][RsNext]_vars

SpecMain == Init /\ [][MnNext]_vars

SpecSsm == Init /\ [][SsNext]_vars

SpecClients == Init /\ [][EcNext]_vars

SpecChain == Init /\ [][ChNext]_vars

SpecApproval == Init /\ [][ApNext]_vars

SpecInvocation == Init /\ [][IvNext]_vars

SpecCli == Init /\ [][CliNext]_vars

SpecSubnets == Init /\ [][SnNext]_vars

SpecRouteTables == Init /\ [][RtNext]_vars

SpecNormalizer == Init /\ [][NzNext]_vars

SpecPersistence == Init /\ [][PsNext]_vars

SpecAnalyzer == Init /\ [][AnNext]_vars

(***************************************************************************)
(* Properties of the gap analyzer.                                         *)
(***************************************************************************)
\* the (service, region) groups of a DataFrame and the number of rows of a
\* group that did not use an endpoint, counted row by row
GroupsOf(df) == {<<df[i].service, df[i].region>> : i \in DOMAIN df}

MissingCount(df, k) ==
    Cardinality({i \in DOMAIN df :
                    /\ df[i].service = k[1]
                    /\ df[i].region = k[2]
                    /\ df[i].usedVpcEndpoint = No})

\* C1 as stated: after analyze_endpoint_usage(events, threshold) the result
\* holds exactly the (service, region) groups of the events whose number of
\* rows with usedEndpoint = false is >= threshold, each with that number.
C1_ExactGroupsAsStated ==
    an_pc = "done" =>
        /\ DOMAIN potential_missing =
              {k \in GroupsOf(events_df) : MissingCount(events_df, k) >= threshold}
        /\ \A k \in DOMAIN potential_missing :
              potential_missing[k] = MissingCount(events_df, k)

\* C1 amended: the result holds exactly the groups that have at least one
\* row with usedEndpoint = false and whose number of such rows is >=
\* threshold, each with that number as its count; no other group is present,
\* and empty input gives the empty result.
C1_ExactGroups ==
    an_pc = "done" =>
        /\ DOMAIN potential_missing =
              {k \in GroupsOf(events_df) :
                  /\ MissingCount(events_df, k) >= 1
                  /\ MissingCount(events_df, k) >= threshold}
        /\ \A k \in DOMAIN potential_missing :
              potential_missing[k] = MissingCount(events_df, k)
        /\ (events_df = <<>> => potential_missing = EmptyDict)

\* the scenario of C1: five S3 calls in region-a without an endpoint and
\* threshold 5 give exactly one candidate, with count 5
C1_Witness ==
    /\ an_pc = "done"
    /\ threshold = 5
    /\ MissingCount(events_df, <<"S3", "region-a">>) = 5
    /\ DOMAIN potential_missing = {<<"S3", "region-a">>}
    /\ potential_missing[<<"S3", "region-a">>] = 5

\* C2: lowering the threshold is monotonic: the candidates returned for the
\* events with any threshold t2 >= threshold are among the candidates the
\* analysis with threshold returned.
C2_ThresholdMonotonic ==
    an_pc = "done" =>
        \A t2 \in threshold..MaxThreshold :
            DOMAIN analyze_endpoint_usage(events_df, t2) \subseteq DOMAIN potential_missing

\* an analysis whose result strictly shrinks, without becoming empty, when
\* the threshold is raised by one
C2_Witness ==
    /\ an_pc = "done"
    /\ threshold < MaxThreshold
    /\ Cardinality(DOMAIN potential_missing) = 2
    /\ Cardinality(DOMAIN analyze_endpoint_usage(events_df, threshold + 1)) = 1

(***************************************************************************)
(* Properties of the normalizer and of the HA selectors.                   *)
(***************************************************************************)


\* the raw record a returned record was made from
RawOf(rec) ==
    LET raw == Flatten(pages)
    IN  raw[CHOOSE i \in DOMAIN raw : raw[i].eventTime = rec.eventTime]

\* C3: a lookup never returns a record whose service identifier is outside
\* the tracked set, and with an actor filter set never a record whose raw
\* actor identity (principalId) does not contain the filter value.
C3_OnlyTrackedAndFiltered ==
    nz_pc = "done" =>
        \A i \in DOMAIN nz_out :
            /\ nz_out[i].service \in Services
            /\ RawOf(nz_out[i]).eventSource \in DOMAIN TARGET_SERVICES
            /\ nz_out[i].service = TARGET_SERVICES[RawOf(nz_out[i]).eventSource]
            /\ (nz_call.target # NoTarget =>
                    Contains(RawOf(nz_out[i]).principalId, nz_call.target))

\* a filtered lookup that returns a record from a log which also holds a
\* well-formed record of an untracked service or of another actor
C3_Witness ==
    /\ nz_pc = "done"
    /\ nz_call.target # NoTarget
    /\ nz_out # <<>>
    /\ \E i \in DOMAIN Flatten(pages) :
          /\ Flatten(pages)[i].form = "ok"
          /\ \/ Flatten(pages)[i].eventSource \notin DOMAIN TARGET_SERVICES
             \/ ~Contains(Flatten(pages)[i].principalId, nz_call.target)

\* the AZs in which the listing has a subnet in the available state
AvailableAzs ==
    {subnets[i].AvailabilityZone : i \in
        {j \in DOMAIN subnets : /\ subnets[j].State = "available"
                                /\ subnets[j].AvailabilityZone \in AzNames}}

\* C4: select_subnets_for_ha never returns two subnets of the same AZ (nor a
\* subnet twice) and at most max_az subnets; when the listing it gets has no
\* more AZs with available subnets than max_az, it returns exactly one
\* subnet, in the available state, for each of those AZs.
C4_OnePerAz ==
    (ha_pc = "done" /\ ha_call.fn = "subnets") =>
        /\ \A i \in DOMAIN ha_out : ha_out[i] \in DOMAIN subnets
        /\ \A i, j \in DOMAIN ha_out :
              subnets[ha_out[i]].AvailabilityZone = subnets[ha_out[j]].AvailabilityZone
                  => i = j
        /\ Len(ha_out) <= ha_call.max_az
        /\ (ha_call.subnets_ok /\ Cardinality(AvailableAzs) <= ha_call.max_az =>
              /\ Len(ha_out) = Cardinality(AvailableAzs)
              /\ {subnets[ha_out[i]].AvailabilityZone : i \in DOMAIN ha_out}
                    = AvailableAzs
              /\ \A i \in DOMAIN ha_out : subnets[ha_out[i]].State = "available")

\* the scenario of C4: available subnets in AZs a, b, c, c and max_az = 3
\* give three subnets
C4_Witness ==
    /\ ha_pc = "done"
    /\ ha_call.fn = "subnets"
    /\ ha_call.max_az = 3
    /\ Len(subnets) = 4
    /\ \A i \in DOMAIN subnets : subnets[i].State = "available"
    /\ AvailableAzs = AzNames
    /\ Cardinality({i \in DOMAIN subnets : subnets[i].AvailabilityZone = "az-c"}) = 2
    /\ Len(ha_out) = 3

\* the default/main route table the selection works with
MainRouteTable ==
    IF \E r \in DOMAIN route_tables : \E a \in DOMAIN route_tables[r].Associations :
            route_tables[r].Associations[a].Main
    THEN LET r == CHOOSE r \in DOMAIN route_tables :
                    /\ \E a \in DOMAIN route_tables[r].Associations :
                            route_tables[r].Associations[a].Main
                    /\ \A q \in (r + 1)..Len(route_tables) :
                            \A a \in DOMAIN route_tables[q].Associations :
                                ~route_tables[q].Associations[a].Main
         IN  route_tables[r].RouteTableId
    ELSE IF route_tables # <<>> THEN route_tables[1].RouteTableId
    ELSE NoneVal

\* the available subnets with an explicit route-table association
ExplicitlyAssociated ==
    {s \in DOMAIN subnets :
        \E r \in DOMAIN route_tables : \E a \in DOMAIN route_tables[r].Associations :
            route_tables[r].Associations[a].SubnetId = s}

\* the AZs with available subnets of which none has an explicit association
AzsWithoutExplicit ==
    {az \in AvailableAzs :
        \A s \in DOMAIN subnets :
            (subnets[s].AvailabilityZone = az /\ subnets[s].State = "available")
                => s \notin ExplicitlyAssociated}

\* C5: the list select_route_tables_for_ha returns holds the default/main
\* route table at most once and no route-table id twice.
C5_MainAtMostOnce ==
    (ha_pc = "done" /\ ha_call.fn = "route_tables") =>
        /\ Cardinality({i \in DOMAIN ha_out : ha_out[i] = MainRouteTable}) <= 1
        /\ \A i, j \in DOMAIN ha_out : ha_out[i] = ha_out[j] => i = j

\* a selection over at least two examined AZs that have no explicit
\* association, which returns the main route table
C5_Witness ==
    /\ ha_pc = "done"
    /\ ha_call.fn = "route_tables"
    /\ ha_call.max_az >= 2
    /\ Cardinality(AzsWithoutExplicit) >= 2
    /\ \E i \in DOMAIN ha_out : ha_out[i] = MainRouteTable
    /\ Len(ha_out) >= 2

(***************************************************************************)
(* The Proposing and Executing steps                                       *)
(***************************************************************************)
\* the (network, service) pair has an endpoint that is not deleted, deleting
\* or failed
NonTerminalExists(eps, vpc_id, service_name) ==
    \E i \in DOMAIN eps :
        /\ eps[i].VpcId = vpc_id
        /\ eps[i].ServiceName = service_name
        /\ eps[i].State \notin {"deleted", "deleting", "failed"}

\* the step is a run of lambda_handler on an asynchronous event of the action
IsRunOf(action) ==
    /\ last'.tick # last.tick
    /\ last'.kind = "async"
    /\ last'.event.action = action

\* the blocks of the candidates in the messages a run sent
RECURSIVE BlocksOf(_)
BlocksOf(sent) == IF sent = <<>> THEN <<>> ELSE Head(sent).items \o BlocksOf(Tail(sent))

\* the candidates of a propose_creation event that are for the event's region
CandidatesOf(event) ==
    {event.analysis_result[i].service : i \in
        {j \in DOMAIN event.analysis_result :
            event.analysis_result[j].region = event.region}}

\* the run aborted before it handled any candidate
Aborted(run) == \E i \in DOMAIN run.sent : run.sent[i].kind \in {"error", "param_error"}

\* a propose_creation run keeps to C6: for each candidate whose endpoint
\* exists it offers no button and issues no create call, and when it gets to
\* the candidates it reports "skipped" for it
C6_LambdaStep ==
    IsRunOf("propose_creation") =>
        \A service \in CandidatesOf(last'.event) :
            NonTerminalExists(endpoints, instance.VpcId,
                              ServiceNameLambda(last'.event.region, service)) =>
                /\ last'.request = NoRequest
                /\ endpoints' = endpoints
                /\ \A i \in DOMAIN BlocksOf(last'.sent) :
                       BlocksOf(last'.sent)[i].service = service =>
                           BlocksOf(last'.sent)[i].outcome = "skipped"
                /\ ~Aborted(last') =>
                       \E i \in DOMAIN BlocksOf(last'.sent) :
                           /\ BlocksOf(last'.sent)[i].service = service
                           /\ BlocksOf(last'.sent)[i].outcome = "skipped"

\* a run of create_vpc_endpoint_interactive keeps to C6: when the endpoint
\* exists it shows no confirmation prompt and issues no create call, and
\* unless it stopped before the check it reports "skipped"
C6_CliStep ==
    (/\ cli_last'.seq # cli_last.seq
     /\ cli_last'.service \in Services
     /\ NonTerminalExists(endpoints, "vpc-1",
                          ServiceNameCli("region-a", cli_last'.service))) =>
        /\ cli_last'.request = NoRequest
        /\ endpoints' = endpoints
        /\ \A i \in DOMAIN cli_last'.prompts : cli_last'.prompts[i] # "confirm"
        /\ cli_last'.result \in {"skipped", "no_client", "no_vpc", "check_failed"}

\* C6: every run of the Proposing step (Lambda propose_creation, CLI
\* create_vpc_endpoint_interactive) for a candidate whose (network, service)
\* already has a non-terminal endpoint reports "skipped", offers no
\* confirmation and issues no create call, however often it is re-run.
C6_SkippedWhenExists == [][C6_LambdaStep /\ C6_CliStep]_vars

\* C7: in propose_creation, a candidate whose existence check answered
\* "unknown" gets no creation proposal (no approve button).
C7_UnknownBlocks ==
    (last.kind = "async" /\ last.event.action = "propose_creation") =>
        \A i \in DOMAIN BlocksOf(last.sent) :
            BlocksOf(last.sent)[i].service \in last.unknown =>
                BlocksOf(last.sent)[i].outcome # "proposal"

\* C8: check_existing_endpoint answers a failed inventory query with
\* "unknown", which no answer to a successful query equals (the empty list
\* least of all), and create_vpc_endpoint_interactive ends on "unknown"
\* before any resource selection, confirmation prompt or create call.
C8_CliAbortsOnUnknown ==
    /\ \A vpc_id \in VpcIds, service \in Services :
          LET failed == check_existing_endpoint(FALSE, endpoints, vpc_id,
                                                ServiceNameCli("region-a", service))
              answered == check_existing_endpoint(TRUE, endpoints, vpc_id,
                                                  ServiceNameCli("region-a", service))
          IN  /\ ~failed.known
              /\ answered.known
              /\ failed # [known |-> TRUE, existing |-> <<>>]
    /\ (/\ cli_last.fault = "check"
        /\ cli_last.result \notin {"none", "no_vpc", "unsupported"}) =>
          /\ cli_last.result = "check_failed"
          /\ ~cli_last.selected
          /\ \A i \in DOMAIN cli_last.prompts :
                 cli_last.prompts[i] \notin {"sg", "confirm"}
          /\ cli_last.request = NoRequest

\* a CLI run whose inventory query failed although the VPC has no endpoint
\* for the service: it ended at the check
C8_Witness ==
    /\ cli_last.fault = "check"
    /\ cli_last.result = "check_failed"
    /\ cli_last.service \in Services
    /\ ~NonTerminalExists(endpoints, "vpc-1",
                          ServiceNameCli("region-a", cli_last.service))
    /\ subnets # <<>>

\* C9: execute_creation issues no create call when a non-terminal endpoint
\* for the (network, service) of its event already exists.
C9_ExecuteChecksExistence ==
    [][IsRunOf("execute_creation") =>
          (NonTerminalExists(endpoints, last'.event.vpc_id,
                             ServiceNameLambda(last'.event.region, last'.event.service))
              => last'.request = NoRequest)]_vars

\* C10: when an execute_creation invocation whose create call succeeded is
\* delivered again while the endpoint it created is still there, the later
\* run issues no second create call.
C10_RedeliveryCreatesNothing ==
    [][(/\ last.kind = "async"
        /\ last.event.action = "execute_creation"
        /\ last.outcome = "created"
        /\ IsRunOf("execute_creation")
        /\ last'.event = last.event
        /\ NonTerminalExists(endpoints, last.event.vpc_id,
                             ServiceNameLambda(last.event.region, last.event.service)))
          => last'.request = NoRequest]_vars

\* the ids of the subnets and of the route tables the inventory of a VPC holds
SubnetIdsIn(vpc_id) == {SubnetsIn(vpc_id)[i].SubnetId : i \in DOMAIN SubnetsIn(vpc_id)}

RouteTableIdsIn(vpc_id) ==
    {RouteTablesIn(vpc_id)[i].RouteTableId : i \in DOMAIN RouteTablesIn(vpc_id)}

\* a run sent a message of the kind
Sent(run, kind) == \E i \in DOMAIN run.sent : run.sent[i].kind = kind

\* an execute_creation run keeps to C11 against the inventory it ran on
C11_Step ==
    IsRunOf("execute_creation") =>
        LET e == last'.event
            request == last'.request
            fresh_rt == select_route_tables_for_ha(TRUE, SubnetsIn(e.vpc_id), TRUE,
                                                   RouteTablesIn(e.vpc_id), 3)
            fresh_sn == select_subnets_for_ha(TRUE, SubnetsIn(e.vpc_id), 3)
        IN  /\ (request # NoRequest /\ e.endpoint_type = "Gateway") =>
                  /\ request.RouteTableIds = fresh_rt
                  /\ request.RouteTableIds # <<>>
                  /\ Range(request.RouteTableIds) \subseteq RouteTableIdsIn(e.vpc_id)
                  /\ request.SubnetIds = <<>>
            /\ (request # NoRequest /\ e.endpoint_type = "Interface") =>
                  /\ request.SubnetIds = fresh_sn
                  /\ request.SubnetIds # <<>>
                  /\ Range(request.SubnetIds) \subseteq SubnetIdsIn(e.vpc_id)
                  /\ request.RouteTableIds = <<>>
            /\ (\/ e.endpoint_type = "Gateway" /\ RouteTableIdsIn(e.vpc_id) = {}
                \/ e.endpoint_type = "Interface" /\ SubnetIdsIn(e.vpc_id) = {}) =>
                  /\ request = NoRequest
                  /\ endpoints' = endpoints
                  /\ Sent(last', "create_failed")

\* C11: the SubnetIds / RouteTableIds of the create request of an
\* execute_creation run are exactly the HA selection over the inventory as it
\* is when the run is made (ids that the inventory holds then), and when that
\* inventory has nothing to select the run issues no create call and reports
\* the failure.
C11_FreshSelection == [][C11_Step]_vars

\* an execute_creation run created an Interface endpoint in the network that
\* has a single subnet
C11_Witness ==
    /\ last.kind = "async"
    /\ last.event.action = "execute_creation"
    /\ last.outcome = "created"
    /\ last.request.SubnetIds = <<1>>
    /\ Len(subnets) = 1

\* C12: the VpcId and the SecurityGroupIds of the create request of an
\* execute_creation run are those the instance network lookup of that run
\* returned.
C12_IdentityReResolved ==
    [][IsRunOf("execute_creation") /\ last'.request # NoRequest =>
          LET network_details ==
                  get_instance_network_details(TRUE, InstanceOf(last'.event.instance_id))
          IN  /\ last'.request.VpcId = network_details.vpc_id
              /\ last'.event.endpoint_type = "Interface" =>
                    last'.request.SecurityGroupIds = network_details.security_group_ids]_vars

\* the step is a run of lambda_handler on a block_actions callback
IsClick ==
    /\ last'.tick # last.tick
    /\ last'.kind = "button"

\* the callback carries the action_id and the value of the approve button of
\* a proposal the channel shows
IsApprove ==
    /\ IsClick
    /\ last'.given.action_id = "create_endpoint_yes"
    /\ \E i \in DOMAIN slack.items :
          /\ slack.items[i].outcome = "proposal"
          /\ slack.items[i].value = last'.given.value

\* the execute_creation event with the fields propose_creation serializes for
\* a candidate: its own response_url, instance_id and region, the service of
\* the candidate, the VPC of the instance and the endpoint type of the service
ExpectedExecute(event, service) ==
    AsyncEvent("execute_creation", event.response_url, event.instance_id, event.region,
               <<>>, service, instance.VpcId,
               IF service = "S3" THEN "Gateway" ELSE "Interface",
               AsyncKeys \cup ExecuteKeys)

\* every approve button a propose_creation run offers holds a value from which
\* the callback handler starts execute_creation with the fields serialized
C13_ProposeStep ==
    IsRunOf("propose_creation") =>
        \A i \in DOMAIN BlocksOf(last'.sent) :
            BlocksOf(last'.sent)[i].outcome = "proposal" =>
                block_actions("create_endpoint_yes", BlocksOf(last'.sent)[i].value).invoked
                    = {ExpectedExecute(last'.event, BlocksOf(last'.sent)[i].service)}

\* an approve callback hands on the fields of the value it carries, and the
\* invocation it starts is the one that is delivered
C13_ClickStep ==
    IsApprove =>
        /\ \A ev \in last'.invoked :
              /\ ev \in inflight'
              /\ \A k \in {"instance_id", "region", "service", "vpc_id",
                           "endpoint_type", "response_url"} :
                    ev[k] = DictGet(Loads(last'.given.value).pairs, k)
        /\ last'.invoked # {}

\* C13: the fields instance_id, region, service, vpc_id, endpoint_type and
\* response_url of the execute_creation event that follows an approve
\* callback equal the values propose_creation serialized into the button.
C13_PayloadRoundTrip == [][C13_ProposeStep /\ C13_ClickStep]_vars

\* an approve callback for an ECR proposal started the execute_creation step
C13_Witness ==
    /\ last.kind = "button"
    /\ last.given.action_id = "create_endpoint_yes"
    /\ \E ev \in last.invoked :
          /\ ev \in inflight
          /\ ev.service = "ECR"
          /\ ev.endpoint_type = "Interface"
          /\ ev.vpc_id = "vpc-1"

\* a block_actions run keeps to C14
C14_Step ==
    IsClick =>
        /\ last'.request = NoRequest
        /\ endpoints' = endpoints
        /\ IsApprove =>
              /\ Cardinality(last'.invoked) = 1
              /\ \A ev \in last'.invoked : ev.action = "execute_creation"
              /\ inflight' = inflight \cup last'.invoked
        /\ (/\ last'.given.action_id = "create_endpoint_no"
            /\ last'.given.value = Dumps(<< <<"action", "cancel_creation">> >>)) =>
              /\ last'.invoked = {}
              /\ inflight' = inflight
              /\ Sent(last', "cancelled")
              /\ slack'.kind = "cancelled"
        /\ (\/ last'.given.action_id \notin {"create_endpoint_yes", "create_endpoint_no"}
            \/ ~Loads(last'.given.value).ok) =>
              /\ last'.invoked = {}
              /\ inflight' = inflight

IsAnalysis ==
    /\ last.kind = "async"
    /\ last.event.action = "analyze_traffic"

\* the (service, region) groups of the records the step looked up that have
\* at least ENDPOINT_MISSING_THRESHOLD rows without an endpoint
GapsSeen ==
    {k \in GroupsOf(last.given.events) : MissingCount(last.given.events, k) >= ENDPOINT_MISSING_THRESHOLD}

\* C15: an analyze_traffic run whose event lookup returned nothing, or whose
\* records hold no group at the threshold, sends a notification and starts
\* no invocation; a run starts the propose_creation step only when at least
\* one gap candidate was found, and then it does.
C15_AnalyzeEnds ==
    IsAnalysis =>
        /\ last.given.events = <<>> =>
              /\ last.invoked = {}
              /\ Len(last.sent) = 1
              /\ Sent(last, "no_traffic")
        /\ (last.given.events # <<>> /\ GapsSeen = {}) =>
              /\ last.invoked = {}
              /\ Len(last.sent) = 1
              /\ Sent(last, "no_gap")
        /\ last.invoked # {} =>
              /\ GapsSeen # {}
              /\ \A ev \in last.invoked :
                    /\ ev.action = "propose_creation"
                    /\ ev.analysis_result # <<>>
        /\ GapsSeen # {} => last.invoked # {}
        /\ last.request = NoRequest

\* an analysis of records that hold a group below the threshold ended the
\* workflow
C15_Witness ==
    /\ IsAnalysis
    /\ last.given.events # <<>>
    /\ GapsSeen = {}
    /\ last.invoked = {}
    /\ inflight = {}
    /\ Sent(last, "no_gap")

\* C16: an analyze_traffic run that finds k >= 1 gap candidates starts k
\* units of work, each carrying exactly one candidate.
C16_FanOutPerCandidate ==
    (IsAnalysis /\ GapsSeen # {}) =>
        /\ Cardinality(last.invoked) = Cardinality(GapsSeen)
        /\ \A ev \in last.invoked : Len(ev.analysis_result) = 1

(***************************************************************************)
(* Candidates, failures and notifications                                  *)
(***************************************************************************)
\* the positions of the blocks a run sent for a service
BlocksFor(run, service) ==
    {i \in DOMAIN BlocksOf(run.sent) : BlocksOf(run.sent)[i].service = service}

\* the handling of the candidate met a failure in the run: its existence
\* check did not answer, its selection came back empty or its button value
\* could not be built
FailedFor(run, service) ==
    \/ service \in run.unknown
    \/ \E i \in BlocksFor(run, service) :
          BlocksOf(run.sent)[i].outcome \in {"selection_failed", "too_long"}

\* a failure inside the loop of propose_creation leaves every other
\* candidate of the run with the one report that is its own
C17_LoopStep ==
    (IsRunOf("propose_creation") /\ ~Aborted(last')) =>
        \A failed \in CandidatesOf(last'.event) :
            FailedFor(last', failed) =>
                \A sibling \in CandidatesOf(last'.event) \ {failed} :
                    Cardinality(BlocksFor(last', sibling)) = 1

\* a propose_creation run that failed to resolve the client or the network
\* of the instance still reports every candidate
C17_ResolutionStep ==
    (IsRunOf("propose_creation") /\ Aborted(last')) =>
        \A failed \in CandidatesOf(last'.event) :
            \A sibling \in CandidatesOf(last'.event) \ {failed} :
                Cardinality(BlocksFor(last', sibling)) = 1

\* a failed execute_creation run leaves the invocations of the other
\* candidates in place
C17_ExecuteStep ==
    (IsRunOf("execute_creation") /\ Sent(last', "create_failed")) =>
        /\ inflight \ {last'.event} \subseteq inflight'
        /\ last'.invoked = {}

\* C17: a failure while one candidate is handled in Proposing or Executing
\* (resolution, existence check, selection, payload build, create) leaves
\* every other candidate of the analysis pass with its own proposal, skip
\* report or failure report.
C17_SiblingsUnaffected == [][C17_LoopStep /\ C17_ResolutionStep /\ C17_ExecuteStep]_vars

\* failures inside the loop and in execute_creation do stay with their
\* candidate
C17_ContainedFailures == [][C17_LoopStep /\ C17_ExecuteStep]_vars

\* C18: every run of lambda_handler on an asynchronous event that ends in
\* failure (a missing parameter, an unknown action, an error of the step)
\* has sent at least one message.
C18_FailuresReported ==
    (/\ last.kind = "async"
     /\ \/ last.status # 200
        \/ last.outcome = "create_error"
        \/ last.event.action \notin {"analyze_traffic", "propose_creation",
                                     "execute_creation"}) =>
        last.sent # <<>>

\* a propose_creation run keeps to C19 against the inventory it ran on
C19_Step ==
    IsRunOf("propose_creation") =>
        LET blocks == BlocksOf(last'.sent)
            vpc_id == instance.VpcId
        IN  /\ Aborted(last') => blocks = <<>>
            /\ ~Aborted(last') =>
                  \A service \in CandidatesOf(last'.event) :
                      Cardinality(BlocksFor(last', service)) = 1
            /\ \A i \in DOMAIN blocks :
                  /\ blocks[i].service \in CandidatesOf(last'.event)
                  /\ blocks[i].outcome \in {"skipped", "selection_failed", "too_long",
                                            "proposal"}
                  /\ blocks[i].outcome # "proposal" => blocks[i].value = <<>>
                  /\ blocks[i].outcome = "proposal" =>
                        /\ blocks[i].value # <<>>
                        /\ \/ blocks[i].service \in last'.unknown
                           \/ ~NonTerminalExists(endpoints, vpc_id,
                                  ServiceNameLambda(last'.event.region, blocks[i].service))
                        /\ subnets # <<>>
                        /\ IF blocks[i].service = "S3"
                           THEN select_route_tables_for_ha(TRUE, SubnetsIn(vpc_id), TRUE,
                                                           RouteTablesIn(vpc_id), 3) # <<>>
                           ELSE select_subnets_for_ha(TRUE, SubnetsIn(vpc_id), 3) # <<>>

ButtonChars(event, service) ==
    LET keys == 6 + 11 + 6 + 7 + 6 + 13 + 12
        values == 16 + StrLen(event.instance_id) + StrLen(event.region)
                     + StrLen(service) + StrLen("vpc-1")
                     + (IF service = "S3" THEN 7 ELSE 9) + StrLen(event.response_url)
    IN  2 + keys + values + 7 * 6 + 6 * 2

\* C20: every value attached to an approve button has at most 2000
\* characters, and a candidate whose serialized payload has more gets no
\* approve button but the "manual creation required" report.
C20_PayloadBounded ==
    (last.kind = "async" /\ last.event.action = "propose_creation") =>
        \A i \in DOMAIN BlocksOf(last.sent) :
            LET block == BlocksOf(last.sent)[i]
                chars == ButtonChars(last.event, block.service)
            IN  /\ block.outcome = "proposal" =>
                      /\ chars <= 2000
                      /\ Loads(block.value).ok
                      /\ Len(Loads(block.value).pairs) = 7
                /\ chars > 2000 =>
                      block.outcome \in {"skipped", "selection_failed", "too_long"}
                /\ block.outcome = "too_long" => chars > 2000 /\ block.value = <<>>

\* a run that offered a button whose value has exactly 2000 characters and
\* reported a longer one as too long
C20_Witness ==
    /\ last.kind = "async"
    /\ last.event.action = "propose_creation"
    /\ \E i, j \in DOMAIN BlocksOf(last.sent) :
          /\ BlocksOf(last.sent)[i].outcome = "proposal"
          /\ ButtonChars(last.event, BlocksOf(last.sent)[i].service) = 2000
          /\ BlocksOf(last.sent)[j].outcome = "too_long"
          /\ ButtonChars(last.event, BlocksOf(last.sent)[j].service) = 2003

\* the raw records whose CloudTrailEvent is there and parses
WellFormed(evs) == SelectSeq(evs, LAMBDA ev : ev.form = "ok")

\* C21: a malformed raw record never aborts the collection: what a lookup
\* that read every page returns is the normalization of the well-formed
\* records of the log, in their order, every malformed record being skipped.
C21_MalformedSkipped ==
    (nz_pc = "done" /\ nz_call.fn = "cli" /\ nz_call.ok) =>
        nz_out = NormalizeAll(WellFormed(Flatten(pages)), nz_call.target)

\* a lookup that returned a record which follows, in the log, a malformed
\* record (one that does not parse, or one without the CloudTrailEvent key)
C21_Witness ==
    /\ nz_pc = "done"
    /\ nz_call.fn = "cli"
    /\ nz_call.ok
    /\ \E i \in DOMAIN nz_out :
          \E j \in DOMAIN Flatten(pages) :
              /\ Flatten(pages)[j].form # "ok"
              /\ j < nz_out[i].eventTime

\* C22: an error of the audit-log source on a page other than the first is
\* not fatal to the collection: the records normalized from the pages read
\* before it are returned.
C22_LaterPageFailureKeepsRecords ==
    (nz_pc = "done" /\ nz_call.fn = "cli" /\ nz_call.fail >= 2) =>
        nz_out = NormalizeAll(Flatten(SubSeq(pages, 1, nz_call.fail - 1)),
                              nz_call.target)

\* a step that is one call of the CLI lookup
IsPass ==
    /\ nz_pc = "input"
    /\ nz_pc' = "done"
    /\ nz_call'.fn = "cli"

C23_Step ==
    (IsPass /\ (nz_call'.target # NoTarget \/ nz_call'.fail # 0)) =>
        UNCHANGED <<latest_csv, cumulative_csv>>

\* C23: a collection pass that runs with an actor filter, or in which the
\* fetch of any page fails, leaves the latest-run snapshot and the cumulative
\* log as they were.
C23_NoPartialPersistence == [][C23_Step]_vars

\* a pass over existing files that failed on its second page after reading a
\* first page with a record it would have saved
C23_Witness ==
    /\ nz_pc = "done"
    /\ nz_call.fn = "cli"
    /\ nz_call.target = NoTarget
    /\ nz_call.fail = 2
    /\ NormalizeAll(pages[1], NoTarget) # <<>>
    /\ latest_csv.exists
    /\ cumulative_csv.rows # <<>>

IsPrefix(a, b) == Len(a) <= Len(b) /\ SubSeq(b, 1, Len(a)) = a

\* a pass without an actor filter that read every page
IsFullPass ==
    /\ IsPass
    /\ nz_call'.target = NoTarget
    /\ nz_call'.ok

C24_Step ==
    IsFullPass =>
        /\ latest_csv'.rows = ToCsv(nz_out')
        /\ cumulative_csv'.rows = cumulative_csv.rows \o ToCsv(nz_out')

\* C24: after every successful pass without an actor filter the latest-run
\* snapshot holds exactly the records of that pass and the cumulative log
\* its previous content followed by them; the cumulative log only grows at
\* its end.
C24_SnapshotAndLog ==
    [][C24_Step /\ IsPrefix(cumulative_csv.rows, cumulative_csv'.rows)]_vars

\* what holds of the passes that found at least one record, and of the
\* cumulative log in every pass
C24_NonEmptyPassPersisted ==
    [][/\ (IsFullPass /\ nz_out' # <<>>) =>
              /\ latest_csv' = [exists |-> TRUE, rows |-> ToCsv(nz_out')]
              /\ cumulative_csv' = [exists |-> TRUE,
                                    rows |-> cumulative_csv.rows \o ToCsv(nz_out')]
       /\ (IsFullPass /\ nz_out' = <<>>) =>
              UNCHANGED <<latest_csv, cumulative_csv>>
       /\ IsPrefix(cumulative_csv.rows, cumulative_csv'.rows)]_vars

\* the k-th AZ, by name, of those with an available subnet
NthAvailableAz(k) ==
    CHOOSE a \in AvailableAzs :
        Cardinality({b \in AvailableAzs : AzRank[b] < AzRank[a]}) = k - 1

\* the first subnet of the listing that is available and in the AZ
FirstListedIn(az) ==
    CHOOSE i \in DOMAIN subnets :
        /\ subnets[i].AvailabilityZone = az
        /\ subnets[i].State = "available"
        /\ \A j \in 1..(i - 1) :
              ~(subnets[j].AvailabilityZone = az /\ subnets[j].State = "available")

Min(a, b) == IF a <= b THEN a ELSE b

\* C25: select_subnets_for_ha returns, for the listing it is given, the first
\* listed available subnet of each of the first max_az AZs that have an
\* available subnet, the AZs taken in the lexicographic order of their names.
C25_ReferenceRule ==
    (ha_pc = "done" /\ ha_call.fn = "subnets" /\ ha_call.subnets_ok) =>
        ha_out = [k \in 1..Min(ha_call.max_az, Cardinality(AvailableAzs)) |->
                     subnets[FirstListedIn(NthAvailableAz(k))].SubnetId]

\* a selection of two subnets from a listing with three AZs that starts with
\* a subnet of the last AZ and lists a pending subnet of an AZ before an
\* available one
C25_Witness ==
    /\ ha_pc = "done"
    /\ ha_call.fn = "subnets"
    /\ ha_call.subnets_ok
    /\ ha_call.max_az = 2
    /\ Cardinality(AvailableAzs) = 3
    /\ subnets[1].AvailabilityZone = "az-c"
    /\ Len(ha_out) = 2
    /\ \E i, j \in DOMAIN subnets :
          /\ i < j
          /\ subnets[i].AvailabilityZone = subnets[j].AvailabilityZone
          /\ subnets[i].State = "pending"
          /\ subnets[j].State = "available"

\* C26: select_subnets_for_ha returns the empty list, and returns, when the
\* network has no subnet, when none of its subnets is in the available
\* state, and when the inventory query fails.
C26_EmptyNotException ==
    (/\ ha_pc = "done"
     /\ ha_call.fn = "subnets"
     /\ \/ ~ha_call.subnets_ok
        \/ subnets = <<>>
        \/ \A i \in DOMAIN subnets : subnets[i].State # "available")
        => ha_out = <<>>

\* a selection with max_az > 0 over a listing of subnets in two AZs, none of
\* them available, that returned the empty list
C26_Witness ==
    /\ ha_pc = "done"
    /\ ha_call.fn = "subnets"
    /\ ha_call.subnets_ok
    /\ ha_call.max_az > 0
    /\ Len(subnets) >= 2
    /\ \A i \in DOMAIN subnets : subnets[i].State = "pending"
    /\ \E i, j \in DOMAIN subnets :
          subnets[i].AvailabilityZone # subnets[j].AvailabilityZone
    /\ ha_out = <<>>

\* the listing flags a route table as the main one
HasMain ==
    \E r \in DOMAIN route_tables : \E a \in DOMAIN route_tables[r].Associations :
        route_tables[r].Associations[a].Main

\* a selection whose two inventory queries succeeded
IsRouteTableSelection ==
    /\ ha_pc = "done"
    /\ ha_call.fn = "route_tables"
    /\ ha_call.subnets_ok
    /\ ha_call.rts_ok

\* the route tables explicitly associated with an available subnet of the AZ
ExplicitIn(az) ==
    {route_tables[r].RouteTableId : r \in
        {q \in DOMAIN route_tables :
            \E a \in DOMAIN route_tables[q].Associations :
                LET s == route_tables[q].Associations[a].SubnetId
                IN  /\ s \in DOMAIN subnets
                    /\ subnets[s].AvailabilityZone = az
                    /\ subnets[s].State = "available"}}

\* the first n AZs, by name, of those with an available subnet
FirstAzs(n) ==
    {az \in AvailableAzs :
        Cardinality({b \in AvailableAzs : AzRank[b] < AzRank[az]}) < n}

\* C27: select_route_tables_for_ha examines only the first max_az AZs in the
\* lexicographic order of their names; for each of them it selects a route
\* table explicitly associated with a subnet of the AZ when there is one and
\* the main route table otherwise, and it never selects a route table that is
\* associated only with subnets of later AZs.
C27_OnlyFirstAzs ==
    (IsRouteTableSelection /\ HasMain) =>
        /\ \A az \in FirstAzs(ha_call.max_az) :
              IF ExplicitIn(az) # {}
              THEN ExplicitIn(az) \cap Range(ha_out) # {}
              ELSE MainRouteTable \in Range(ha_out)
        /\ \A i \in DOMAIN ha_out :
              \/ ha_out[i] = MainRouteTable
              \/ \E az \in FirstAzs(ha_call.max_az) : ha_out[i] \in ExplicitIn(az)

\* what holds of the examined AZs: each of the first max_az AZs is served
C27_FirstAzsServed ==
    (IsRouteTableSelection /\ HasMain) =>
        \A az \in FirstAzs(ha_call.max_az) :
            IF ExplicitIn(az) # {}
            THEN ExplicitIn(az) \cap Range(ha_out) # {}
            ELSE MainRouteTable \in Range(ha_out)

\* C28: for max_az >= 1, select_route_tables_for_ha returns at most max_az
\* route-table ids, each of them the network's main route table or a route
\* table explicitly associated with an available subnet of the network.
C28_MainOrAssociated ==
    (ha_pc = "done" /\ ha_call.fn = "route_tables" /\ ha_call.max_az >= 1) =>
        /\ Len(ha_out) <= ha_call.max_az
        /\ \A i \in DOMAIN ha_out :
              \/ HasMain /\ ha_out[i] = MainRouteTable
              \/ \E az \in AvailableAzs : ha_out[i] \in ExplicitIn(az)

\* the same for the networks whose listing flags a main route table
C28_WithMain ==
    (ha_pc = "done" /\ ha_call.fn = "route_tables" /\ ha_call.max_az >= 1
        /\ HasMain) =>
        /\ Len(ha_out) <= ha_call.max_az
        /\ \A i \in DOMAIN ha_out :
              \/ ha_out[i] = MainRouteTable
              \/ \E az \in AvailableAzs : ha_out[i] \in ExplicitIn(az)

\* no available subnet has an explicit route-table association
NoExplicitAssociation == \A az \in AvailableAzs : ExplicitIn(az) = {}

\* the statement of C29 for every network, also one without an available
\* subnet
C29_AsStated ==
    (IsRouteTableSelection /\ HasMain /\ NoExplicitAssociation) =>
        MainRouteTable \in Range(ha_out)

\* C29: for every network that has a main route table and at least one
\* available subnet, and in which no available subnet has an explicit
\* route-table association, a selection whose inventory queries succeed
\* contains the main route table.
C29_MainIncluded ==
    (IsRouteTableSelection /\ HasMain /\ NoExplicitAssociation
        /\ AvailableAzs # {}) =>
        MainRouteTable \in Range(ha_out)

\* a selection over two AZs without explicit associations, in a network
\* whose main route table is not the first of the listing, that returned the
\* main route table alone
C29_Witness ==
    /\ IsRouteTableSelection
    /\ HasMain
    /\ NoExplicitAssociation
    /\ Cardinality(AvailableAzs) >= 2
    /\ route_tables[1].RouteTableId # MainRouteTable
    /\ ha_call.max_az >= 2
    /\ ha_out = <<MainRouteTable>>

\* C30: select_route_tables_for_ha returns the empty list whenever no AZ
\* yields an explicit route-table association and no route table of the
\* network is flagged as the main one.
C30_FailsWithoutMain ==
    (IsRouteTableSelection /\ ~HasMain /\ NoExplicitAssociation) =>
        ha_out = <<>>

\* the inventory holds an endpoint of the instance's VPC and the service that
\* is not deleted, deleting or failed
LiveEndpoint(region, service) ==
    \E i \in DOMAIN endpoints :
        /\ endpoints[i].VpcId = instance.VpcId
        /\ endpoints[i].ServiceName = ServiceNameLambda(region, service)
        /\ endpoints[i].State \notin {"deleted", "deleting", "failed"}

C31_Step ==
    (IsRunOf("propose_creation") /\ ~Aborted(last')) =>
        \A service \in CandidatesOf(last'.event) \ last'.unknown :
            /\ BlocksFor(last', service) # {}
            /\ \A i \in BlocksFor(last', service) :
                  BlocksOf(last'.sent)[i].outcome = "skipped"
                      <=> LiveEndpoint(last'.event.region, service)

\* C31: the existence check reports exactly the endpoints of the (network,
\* service) pair whose state is not deleted, deleting or failed: a candidate
\* is skipped if and only if such an endpoint exists, and an endpoint in one
\* of the three states never causes a skip.
C31_OnlyLiveEndpointsExist == [][C31_Step]_vars

\* a run that offered the proposal for a candidate although the inventory
\* holds an endpoint of its service in one of the three states
C31_Witness ==
    /\ last.kind = "async"
    /\ last.event.action = "propose_creation"
    /\ \E i \in DOMAIN endpoints, b \in DOMAIN BlocksOf(last.sent) :
          /\ endpoints[i].VpcId = instance.VpcId
          /\ endpoints[i].State \in {"deleted", "deleting", "failed"}
          /\ endpoints[i].ServiceName =
                ServiceNameLambda(last.event.region, BlocksOf(last.sent)[b].service)
          /\ BlocksOf(last.sent)[b].outcome = "proposal"

\* describe_instances reports the instance with a VPC id, a subnet id and at
\* least one security group id
Resolvable(inst) ==
    /\ inst.found
    /\ inst.VpcId \notin {NoneVal, ""}
    /\ inst.SubnetId \notin {NoneVal, ""}
    /\ \E i \in DOMAIN inst.SecurityGroups : inst.SecurityGroups[i] \notin {NoneVal, ""}

\* the run got past the parameter check of the asynchronous branch
BodyRan(run) == missing_keys(run.event) = {}

C32_Step ==
    /\ get_instance_network_details(TRUE, instance).ok <=> Resolvable(instance)
    /\ ((IsRunOf("propose_creation") \/ IsRunOf("execute_creation"))
          /\ BodyRan(last') /\ ~Resolvable(InstanceOf(last'.event.instance_id))) =>
            /\ BlocksOf(last'.sent) = <<>>
            /\ last'.request = NoRequest
            /\ last'.invoked = {}
            /\ endpoints' = endpoints
            /\ Sent(last', "error") \/ Sent(last', "create_failed")

\* C32: the instance network lookup yields a network context only when the
\* instance is found and has a VPC id, a subnet id and at least one security
\* group id, and nothing otherwise; a propose_creation or execute_creation
\* run that gets nothing offers no proposal, issues no create call and
\* reports the failure.
C32_UnresolvedStops == [][C32_Step]_vars

\* an approved creation that ran after the instance had lost what the lookup
\* needs, and reported the failure
C32_Witness ==
    /\ last.kind = "async"
    /\ last.event.action = "execute_creation"
    /\ BodyRan(last)
    /\ last.unknown = {}
    /\ instance.found
    /\ ~Resolvable(instance)
    /\ Sent(last, "create_failed")
    /\ last.request = NoRequest

\* an option is given when it is on the command line with a value
OptionGiven(value) == value \notin {NoneVal, ""}

IsMain == main_last' # main_last

\* the calls of a run that query the audit log or propose an endpoint
WorkOf(run) == SelectSeq(run.calls, LAMBDA c : c.call \in {"lookup", "propose"})

C33_Step ==
    IsMain =>
        LET args == main_last'.args
            run == main_last'
            scoped == OptionGiven(args.instance_id)
        IN  IF scoped /\ (OptionGiven(args.reference_instance_id)
                           \/ ~OptionGiven(args.region))
            THEN /\ run.exit = "argument"
                 /\ run.started = <<>>
                 /\ run.calls = <<>>
                 /\ endpoints' = endpoints
                 /\ cli_last' = cli_last
            ELSE /\ run.exit # "argument"
                 /\ run.started = <<IF scoped THEN "instance" ELSE "manual">>
                 /\ \A i \in DOMAIN WorkOf(run) :
                       LET c == WorkOf(run)[i]
                       IN  IF scoped
                           THEN /\ c.target = args.instance_id
                                /\ c.call = "lookup" => c.region = args.region
                           ELSE IF c.call = "lookup" THEN c.target = NoneVal
                           ELSE c.target \in {NoneVal, args.reference_instance_id}

\* C33: main() rejects --instance-id together with --reference-instance-id,
\* and --instance-id without --region, with an argument error before any
\* audit-log query or provisioning call; otherwise exactly one mode runs,
\* the instance-scoped mode if and only if --instance-id is given.
C33_ModesExclusive == [][C33_Step]_vars

\* a run rejected for naming both instances, and nothing was queried
C33_Witness ==
    /\ main_last # NoMain
    /\ OptionGiven(main_last.args.instance_id)
    /\ OptionGiven(main_last.args.region)
    /\ OptionGiven(main_last.args.reference_instance_id)
    /\ main_last.exit = "argument"
    /\ main_last.calls = <<>>

\* C34: the usedEndpoint field of a normalized record is true if and only if
\* the raw record carries a non-empty endpoint identifier; a missing, null or
\* empty identifier gives false.
C34_UsedEndpointIffIdentifier ==
    nz_pc = "done" =>
        \A i \in DOMAIN nz_out :
            /\ nz_out[i].usedVpcEndpoint \in {Yes, No}
            /\ nz_out[i].usedVpcEndpoint = Yes
                  <=> RawOf(nz_out[i]).vpcEndpointId \notin {NoneVal, ""}

\* a lookup that returned a record made from a raw record with an empty
\* endpoint identifier, and one made from a raw record that names an endpoint
C34_Witness ==
    /\ nz_pc = "done"
    /\ \E i, j \in DOMAIN nz_out :
          /\ RawOf(nz_out[i]).vpcEndpointId = ""
          /\ nz_out[i].usedVpcEndpoint = No
          /\ RawOf(nz_out[j]).vpcEndpointId = "vpce-1"
          /\ nz_out[j].usedVpcEndpoint = Yes

\* a create request of type Gateway with route tables and nothing else, or
\* of type Interface with subnets and security groups and no route table
WellTyped(request) ==
    \/ /\ request.VpcEndpointType = "Gateway"
       /\ request.RouteTableIds # <<>>
       /\ request.SubnetIds = <<>>
       /\ request.SecurityGroupIds = <<>>
    \/ /\ request.VpcEndpointType = "Interface"
       /\ request.SubnetIds # <<>>
       /\ request.SecurityGroupIds # <<>>
       /\ request.RouteTableIds = <<>>

\* C35: every create request issued to the provisioning API, by the
\* execute_creation step of the Lambda or by the CLI, is well-typed: a Gateway
\* request has route tables and neither subnets nor security groups, an
\* Interface request has subnets and security groups and no route tables, and
\* for any other endpoint type no create call is issued.
C35_RequestsWellTyped ==
    /\ last.request # NoRequest => WellTyped(last.request)
    /\ cli_last.request # NoRequest => WellTyped(cli_last.request)
    /\ (last.kind = "async" /\ last.event.endpoint_type \notin {"Gateway", "Interface"})
          => last.request = NoRequest
    /\ cli_last.service \notin {"S3", "ECR"} => cli_last.request = NoRequest

\* the Lambda issued an Interface request the API accepted
C35_Witness ==
    /\ last.kind = "async"
    /\ last.event.action = "execute_creation"
    /\ last.request.VpcEndpointType = "Interface"
    /\ Len(last.request.SubnetIds) >= 1
    /\ Len(last.request.SecurityGroupIds) >= 1
    /\ last.outcome = "created"

\* a run of the handler, or a call of the CLI, took place in the step
IsRun == last'.tick # last.tick

IsCliCall == cli_last' # cli_last

C36_Step ==
    /\ (IsRun /\ last'.request # NoRequest) =>
          /\ last'.kind = "async"
          /\ last'.event.action = "execute_creation"
          /\ last'.event \in inflight
    /\ \A ev \in inflight' \ inflight :
          ev.action = "execute_creation" =>
              /\ IsClick
              /\ last'.given.action_id = "create_endpoint_yes"
              /\ LoadsGet(last'.given.value, "action") = "confirm_creation"
              /\ ev \in last'.invoked
    /\ (IsRun /\ (last'.kind = "button"
                   \/ last'.event.action \in {"analyze_traffic", "propose_creation"})) =>
          /\ last'.request = NoRequest
          /\ endpoints' = endpoints
    /\ (IsCliCall /\ cli_last'.request # NoRequest) =>
          /\ cli_last'.answer = "y"
          /\ cli_last'.prompts # <<>>
          /\ cli_last'.prompts[Len(cli_last'.prompts)] = "confirm"
    /\ (IsCliCall /\ cli_last'.request = NoRequest) => endpoints' = endpoints

\* C36: human confirmation precedes creation.  In the Lambda workflow a
\* create call is issued only by an execute_creation step that the handler
\* started in response to an approve callback; the analyze_traffic and
\* propose_creation steps and the reject path issue none.  The CLI issues a
\* create call only after the user answered 'y' at the confirmation prompt.
C36_ConfirmationPrecedesCreation == [][C36_Step]_vars

\* an approved creation went through: the workflow had its proposal
\* approved and the execute_creation step issued the request
C36_Witness ==
    /\ last.kind = "async"
    /\ last.event.action = "execute_creation"
    /\ last.request # NoRequest
    /\ last.outcome = "created"
    /\ slack.kind = "created"

\* the place of a step in the workflow
Rank(action) ==
    IF action = "analyze_traffic" THEN 1
    ELSE IF action = "propose_creation" THEN 2
    ELSE IF action = "execute_creation" THEN 3
    ELSE 0

\* the channel shows a proposal with its buttons: the workflow waits for a
\* callback
Suspended(message) ==
    /\ message.kind = "blocks"
    /\ \E i \in DOMAIN message.items : message.items[i].outcome = "proposal"

Starts(run, n, action) ==
    /\ Cardinality(run.invoked) = n
    /\ \A ev \in run.invoked : ev.action = action

C37_Step ==
    /\ IsRun =>
          /\ inflight' \subseteq inflight \cup last'.invoked
          /\ last'.kind = "slash" =>
                IF last'.status = 200 /\ ~Sent(last', "usage")
                THEN Starts(last', 1, "analyze_traffic")
                ELSE last'.invoked = {}
          /\ last'.kind = "async" =>
                /\ \A ev \in last'.invoked :
                      Rank(ev.action) = Rank(last'.event.action) + 1
                /\ Cardinality(last'.invoked) <= 1
                /\ last'.event.action \in {"propose_creation", "execute_creation"}
                      => last'.invoked = {}
          /\ last'.kind = "button" =>
                IF IsApprove THEN Starts(last', 1, "execute_creation")
                ELSE last'.invoked = {}
    /\ (Suspended(slack') /\ ~Suspended(slack)) => IsRunOf("propose_creation")

MissingOrEmpty(event, k) == k \notin event.keys \/ event[k] \in {NoneVal, ""}

\* an invocation C38 wants rejected
Incomplete(event) ==
    \/ \E k \in AsyncKeys : MissingOrEmpty(event, k)
    \/ /\ event.action = "execute_creation"
       /\ \E k \in ExecuteKeys : MissingOrEmpty(event, k)
    \/ /\ event.action = "propose_creation"
       /\ "analysis_result" \notin event.keys

C38_Step ==
    (IsRun /\ last'.kind = "async" /\ Incomplete(last'.event)) =>
        /\ last'.status = 400
        /\ last'.request = NoRequest
        /\ last'.invoked = {}
        /\ endpoints' = endpoints
        /\ \A i \in DOMAIN last'.sent : last'.sent[i].kind = "param_error"

\* C38: an asynchronous step invocation whose action, response_url,
\* instance_id or region is missing or empty, or (execute_creation) whose
\* service, vpc_id or endpoint_type is missing or empty, or (propose_creation)
\* that has no analysis_result, returns status 400 without running the action
\* body: no self-invocation and no create call happen.
C38_IncompleteRejected == [][C38_Step]_vars

\* C39: the per-region client cache only ever serves validated clients: a
\* client is returned for a region only if that region's describe_regions
\* validation succeeded, and a region whose validation failed yields none on
\* every later call until a validation succeeds.
C39_OnlyValidatedServed ==
    ec2_last.result # NoClient => ec2_last.region \in ec2_validated

\* C40: _run_ssm_command_and_wait always terminates: it returns after at
\* most max_retries (60) status polls, whatever sequence of poll responses
\* and poll errors, "invocation does not exist" included, it receives.
C40_AtMostMaxRetriesPolls == ssm_polls <= max_retries

====
